---- MODULE Spec2Model ----
(***************************************************************************)
(* The membership-application workflow of the ASES backend: the applicant  *)
(* routes of routes/application (start, submit, reapply, payment-proof     *)
(* upload-url) and the admin routes of routes/admin (payment-verify,       *)
(* decision), over the Application table and the payment-proof object      *)
(* store.  Every route handler is split at its awaits on shared state: the *)
(* prisma read, the storage HEAD, the prisma write.  Spec interleaves the  *)
(* steps of concurrent requests; SpecSeq runs each request to completion.  *)
(* SpecOnboarding adds the onboarding routes and the admin reset to the    *)
(* workflow; SpecReview runs the admin routes, the listing and the detail  *)
(* read included, on tables of several applications; SpecCompleteness      *)
(* calls the completeness evaluator on its own, SpecTtl the signing of     *)
(* URLs, SpecUpload the upload-url route on raw request bodies;            *)
(* SpecCapability adds GET /application to SpecSeq; SpecApiFetch runs the  *)
(* frontend API client against answers of any kind.                        *)
(***************************************************************************)
EXTENDS Integers, Sequences, FiniteSets, Bags, TLC

\* Bounds of the model.
MaxTime == 2
MaxKeys == 2
MaxInFlight == 2
MaxRows == 2

\* A nullable column holds NULL or Some(v).
NULL == << >>
Some(v) == << v >>
Val(x) == x[1]

Members == {"u1"}
Admins == {"a1"}
Users == Members \cup Admins
Role(u) == IF u \in Admins THEN "ADMIN" ELSE "MEMBER"

NoResponse == [op |-> "none"]

VARIABLES
    applications,  \* the Application table: a sequence of rows, id = position
    objects,       \* the keys that have an object in the payment-proof bucket
    issued,        \* how many proof keys buildPaymentProofObjectKey has produced
    urls,          \* the keys whose signed upload URL was returned to the client
    now,           \* the clock read by new Date()
    inflight,      \* the requests in flight: a bag of handler positions
    response,      \* the HTTP response sent by the last step, if it sent one
    audit,         \* history, per application: the key that the verification in
                   \* force confirmed in storage (confirmedKey), and whether the
                   \* last proof event was a verification or a later upload
    onboardingResponses,   \* the OnboardingResponse table: a sequence of rows
    onboardingCompletedAt, \* User.onboardingCompletedAt, per user
    csrfTokenCache,        \* the frontend client's cached CSRF token
    apiCall                \* the apiFetch invocation in progress, if any

vars == << applications, objects, issued, urls, now, inflight, response, audit,
           onboardingResponses, onboardingCompletedAt, csrfTokenCache, apiCall >>

----------------------------------------------------------------------------
\* JavaScript values of an answers map, as far as hasNonEmptyValue tells them apart.

Undefined == [type |-> "undefined"]
JsNull == [type |-> "null"]
Str(chars) == [type |-> "string", chars |-> chars]
Num(kind) == [type |-> "number", kind |-> kind]
Bool(b) == [type |-> "boolean", b |-> b]
Arr(n) == [type |-> "array", length |-> n]
Obj(n) == [type |-> "object", keys |-> n]

Whitespace == {" ", "\t", "\n"}

RECURSIVE TrimStart(_)
TrimStart(chars) ==
    IF chars # << >> /\ Head(chars) \in Whitespace
    THEN TrimStart(Tail(chars))
    ELSE chars

RECURSIVE TrimEnd(_)
TrimEnd(chars) ==
    IF chars # << >> /\ chars[Len(chars)] \in Whitespace
    THEN TrimEnd(SubSeq(chars, 1, Len(chars) - 1))
    ELSE chars

Trim(chars) == TrimEnd(TrimStart(chars))

requiredFieldIds ==
    << "email", "fullName", "universityAndBranch", "currentYearLevelAndProgram",
       "facebookLink", "resumeOrCv", "hobbiesAndInterests", "personalWhy",
       "currentBuildingOrWantToBuild", "whyAsesManila", "oneToTwoYearVision",
       "fiveYearVision", "uniqueAboutYou", "memberType", "universityType",
       "amountPaid", "referenceNumber" >>

\* A check that takes a string of blanks for an answer.
hasNonEmptyValueUntrimmed(value) ==
    IF value.type \in {"null", "undefined"} THEN FALSE
    ELSE IF value.type = "string" THEN Len(value.chars) > 0
    ELSE IF value.type = "number" THEN value.kind = "finite"
    ELSE IF value.type = "boolean" THEN TRUE
    ELSE IF value.type = "array" THEN value.length > 0
    ELSE IF value.type = "object" THEN value.keys > 0
    ELSE FALSE

hasNonEmptyValue(value) ==
    IF value.type \in {"null", "undefined"} THEN FALSE
    ELSE IF value.type = "string" THEN Len(Trim(value.chars)) > 0
    ELSE IF value.type = "number" THEN value.kind = "finite"
    ELSE IF value.type = "boolean" THEN TRUE
    ELSE IF value.type = "array" THEN value.length > 0
    ELSE IF value.type = "object" THEN value.keys > 0
    ELSE FALSE

\* answers[fieldId]: undefined for a key the map does not have.
Lookup(answers, fieldId) ==
    IF fieldId \in DOMAIN answers THEN answers[fieldId] ELSE Undefined

RECURSIVE Filter(_, _, _)
Filter(seq, answers, i) ==
    IF i > Len(seq) THEN << >>
    ELSE IF ~hasNonEmptyValue(Lookup(answers, seq[i]))
         THEN << seq[i] >> \o Filter(seq, answers, i + 1)
         ELSE Filter(seq, answers, i + 1)

\* A report that lists the missing fields last to first.
getMissingRequiredApplicationFieldsReversed(answers) ==
    LET missing == Filter(requiredFieldIds, answers, 1) IN
    [i \in 1..Len(missing) |-> missing[Len(missing) + 1 - i]]

getMissingRequiredApplicationFields(answers) == Filter(requiredFieldIds, answers, 1)

\* The answers maps the requests of the model carry: a submit sends "a", a
\* reapply sends "b", and either may send a map whose amountPaid is Infinity.
\* Each passes applicationAnswersSchema: z.coerce.number().positive() accepts
\* Infinity, which hasNonEmptyValue counts as missing.  Either may also send
\* Padded, which the schema trims, and BlankFields, which it refuses.
EmptyAnswers == << >>
RequiredSet == {requiredFieldIds[i] : i \in 1..Len(requiredFieldIds)}
FullAnswers(tag) ==
    [f \in RequiredSet |-> IF f = "amountPaid" THEN Num("finite") ELSE Str(<< tag >>)]
InfiniteAmount == [FullAnswers("a") EXCEPT !["amountPaid"] = Num("Infinity")]
SubmitBodies == {FullAnswers("a"), InfiniteAmount}
ReapplyBodies == {FullAnswers("b"), InfiniteAmount}

\* A full map with blanks around fullName.
Padded(tag) == [FullAnswers(tag) EXCEPT !["fullName"] = Str(<< " ", tag, " " >>)]

\* A map that leaves two of the required fields blank.
BlankFields ==
    [FullAnswers("a") EXCEPT !["fullName"] = Str(<< >>), !["personalWhy"] = Str(<< " " >>)]

\* The bodies that reach validateBody(applicationSubmitSchema) and
\* validateBody(applicationReapplySchema).
RawSubmitBodies == SubmitBodies \cup {Padded("a"), BlankFields}
RawReapplyBodies == ReapplyBodies \cup {Padded("b"), BlankFields}

\* applicationAnswersSchema, per required key.  A string key is .trim() then a
\* check that no blank string passes (min(1), min(3), email(), url(), enum);
\* amountPaid is z.coerce.number().positive(), which a JSON number passes when
\* it is positive, Infinity (1e999) included.  The formats and the length
\* ceilings are not told apart: strings differ only in their characters.
FieldPasses(fieldId, value) ==
    IF fieldId = "amountPaid"
    THEN value.type = "number" /\ value.kind \in {"finite", "Infinity"}
    ELSE value.type = "string" /\ Len(Trim(value.chars)) >= 1

\* schema.safeParse(answers).success
SchemaAccepts(answers) ==
    \A fieldId \in RequiredSet : FieldPasses(fieldId, Lookup(answers, fieldId))

\* result.data: the required keys, strings trimmed.
SchemaData(answers) ==
    [fieldId \in RequiredSet |->
        IF answers[fieldId].type = "string"
        THEN Str(Trim(answers[fieldId].chars))
        ELSE answers[fieldId]]

\* validateBody: the request goes on with req.body = result.data, or is
\* answered validation_error.
validateBody(body) ==
    IF SchemaAccepts(body)
    THEN [success |-> TRUE, body |-> SchemaData(body)]
    ELSE [success |-> FALSE, body |-> body]

\* The submit and reapply requests as validateBody leaves them.
SubmitRequests == {validateBody(body) : body \in RawSubmitBodies}
ReapplyRequests == {validateBody(body) : body \in RawReapplyBodies}

----------------------------------------------------------------------------
\* The Application table.

AppIds == 1..Len(applications)

\* prisma.application.findUnique({ where: { userId } }): the row, or NULL.
FindByUserId(userId) ==
    IF \E id \in AppIds : applications[id].userId = userId
    THEN Some(applications[CHOOSE id \in AppIds : applications[id].userId = userId])
    ELSE NULL

\* prisma.application.findUnique({ where: { id } }): the row, or NULL.
FindById(id) == IF id \in AppIds THEN Some(applications[id]) ELSE NULL

\* A table without the unique index: every insert goes through.
UserIdUniqueBroken(table, userId) == TRUE

\* The unique index Application_userId_key: may a row of this user be inserted?
UserIdUnique(table, userId) == \A i \in 1..Len(table) : table[i].userId # userId

\* A start that creates the row as already submitted.
StartDataSubmitted(id, userId, at) ==
    [ id |-> id,
      userId |-> userId,
      answersJson |-> EmptyAnswers,
      status |-> "PENDING",
      paymentProofKey |-> NULL,
      paymentProofUploadedAt |-> NULL,
      paymentVerifiedAt |-> NULL,
      paymentVerifiedByUserId |-> NULL,
      submittedAt |-> at,
      reviewedAt |-> NULL,
      reviewedByUserId |-> NULL,
      decisionNote |-> NULL ]

\* The row POST /application/start creates.
StartData(id, userId, at) ==
    [ id |-> id,
      userId |-> userId,
      answersJson |-> EmptyAnswers,
      status |-> "DRAFT",
      paymentProofKey |-> NULL,
      paymentProofUploadedAt |-> NULL,
      paymentVerifiedAt |-> NULL,
      paymentVerifiedByUserId |-> NULL,
      submittedAt |-> at,
      reviewedAt |-> NULL,
      reviewedByUserId |-> NULL,
      decisionNote |-> NULL ]

\* The columns POST /application/start selects of the row it finds.
ExistingSelect(row) ==
    [ id |-> row.id,
      status |-> row.status,
      submittedAt |-> row.submittedAt,
      paymentProofKey |-> row.paymentProofKey,
      paymentProofUploadedAt |-> row.paymentProofUploadedAt ]

\* The columns POST /application/start selects of the row it creates.
CreatedSelect(row) ==
    [id |-> row.id, status |-> row.status, submittedAt |-> row.submittedAt]

NoAudit == [confirmedKey |-> NULL, proof |-> "none"]

Respond(op, by, arg, code) ==
    [op |-> op, by |-> by, arg |-> arg, code |-> code, details |-> NULL]

RespondWith(op, by, arg, code, details) ==
    [op |-> op, by |-> by, arg |-> arg, code |-> code, details |-> Some(details)]

----------------------------------------------------------------------------
\* The submit guards without the payment-proof check.
SubmitErrorNoProof(existing, answers) ==
    IF existing = NULL THEN "application_not_started"
    ELSE IF Val(existing).status = "REJECTED" THEN "use_reapply_endpoint"
    ELSE IF Val(existing).status # "DRAFT" THEN "application_already_submitted"
    ELSE IF Len(getMissingRequiredApplicationFields(answers)) > 0
         THEN "application_incomplete"
         ELSE "ok"

\* The submit guards with the completeness check ahead of the status checks.
SubmitErrorCompletenessFirst(existing, answers) ==
    IF existing = NULL THEN "application_not_started"
    ELSE IF \/ Len(getMissingRequiredApplicationFields(answers)) > 0
            \/ Val(existing).paymentProofKey = NULL
         THEN "application_incomplete"
    ELSE IF Val(existing).status = "REJECTED" THEN "use_reapply_endpoint"
    ELSE IF Val(existing).status # "DRAFT" THEN "application_already_submitted"
         ELSE "ok"

\* POST /application: the guards, in the order of the handler.
SubmitError(existing, answers) ==
    IF existing = NULL THEN "application_not_started"
    ELSE IF Val(existing).status = "REJECTED" THEN "use_reapply_endpoint"
    ELSE IF Val(existing).status # "DRAFT" THEN "application_already_submitted"
    ELSE IF \/ Len(getMissingRequiredApplicationFields(answers)) > 0
            \/ Val(existing).paymentProofKey = NULL
         THEN "application_incomplete"
         ELSE "ok"

\* Details that report the payment proof as present whatever the row holds.
IncompleteDetailsProofPresent(existing, answers) ==
    [ missingRequiredFields |-> getMissingRequiredApplicationFields(answers),
      missingPaymentProof |-> FALSE ]

\* The details object of the application_incomplete error.
IncompleteDetails(existing, answers) ==
    [ missingRequiredFields |-> getMissingRequiredApplicationFields(answers),
      missingPaymentProof |-> (Val(existing).paymentProofKey = NULL) ]

\* POST /application: the data of the update.
SubmitData(row, answers, at) ==
    [ row EXCEPT !.answersJson = answers,
                 !.status = "PENDING",
                 !.submittedAt = at,
                 !.reviewedAt = NULL,
                 !.reviewedByUserId = NULL,
                 !.decisionNote = NULL,
                 !.paymentVerifiedAt = NULL,
                 !.paymentVerifiedByUserId = NULL ]

\* The reapply guards without the status check.
ReapplyErrorAnyStatus(existing, answers) ==
    IF existing = NULL THEN "application_not_found"
    ELSE IF \/ Len(getMissingRequiredApplicationFields(answers)) > 0
            \/ Val(existing).paymentProofKey = NULL
         THEN "application_incomplete"
         ELSE "ok"

\* POST /application/reapply: the guards, in the order of the handler.
ReapplyError(existing, answers) ==
    IF existing = NULL THEN "application_not_found"
    ELSE IF Val(existing).status # "REJECTED" THEN "cannot_reapply"
    ELSE IF \/ Len(getMissingRequiredApplicationFields(answers)) > 0
            \/ Val(existing).paymentProofKey = NULL
         THEN "application_incomplete"
         ELSE "ok"

\* A reapply update that leaves the earlier decision on the row.
ReapplyDataKeepsReview(row, answers, at) ==
    [ row EXCEPT !.answersJson = answers,
                 !.status = "PENDING",
                 !.submittedAt = at,
                 !.paymentVerifiedAt = NULL,
                 !.paymentVerifiedByUserId = NULL ]

\* POST /application/reapply: the data of the update.
ReapplyData(row, answers, at) ==
    [ row EXCEPT !.answersJson = answers,
                 !.status = "PENDING",
                 !.submittedAt = at,
                 !.reviewedAt = NULL,
                 !.reviewedByUserId = NULL,
                 !.decisionNote = NULL,
                 !.paymentVerifiedAt = NULL,
                 !.paymentVerifiedByUserId = NULL ]

\* The upload-url guards with only PENDING locked.
UploadUrlErrorAcceptedOpen(existing) ==
    IF existing = NULL THEN "application_not_started"
    ELSE IF Val(existing).status = "PENDING"
         THEN "payment_proof_locked"
         ELSE "ok"

\* POST /application/payment-proof/upload-url: the guards.
UploadUrlError(existing) ==
    IF existing = NULL THEN "application_not_started"
    ELSE IF Val(existing).status = "PENDING" \/ Val(existing).status = "ACCEPTED"
         THEN "payment_proof_locked"
         ELSE "ok"

mimeToExtension(contentType) ==
    CASE contentType = "image/jpeg" -> "jpg"
      [] contentType = "image/png" -> "png"
      [] contentType = "image/webp" -> "webp"
      [] OTHER -> "bin"

\* The content types of the upload-url requests of the model.
UploadContentTypes == {"image/png"}

\* paymentProofAllowedMimeTypes: Object.keys(mimeToExtension).
paymentProofAllowedMimeTypes == {"image/jpeg", "image/png", "image/webp"}

\* paymentProofMaxBytes: 10 * 1024 * 1024.
paymentProofMaxBytes == 10 * 1024 * 1024

\* A JSON number, whole or with a fraction after its whole part, and a JSON
\* string of digits.
Whole(n) == [type |-> "number", whole |-> n, fraction |-> FALSE]
Fraction(n) == [type |-> "number", whole |-> n, fraction |-> TRUE]
Digits(n) == [type |-> "string", whole |-> n, fraction |-> FALSE]

\* A schema that takes any content type.
paymentProofUploadUrlSchemaAnyType(body) ==
    /\ body.contentLength.type = "number"
    /\ ~body.contentLength.fraction
    /\ body.contentLength.whole > 0
    /\ body.contentLength.whole <= paymentProofMaxBytes

\* paymentProofUploadUrlSchema: contentType is one of the allowed types,
\* contentLength a number (not coerced) that is an integer, positive and at
\* most paymentProofMaxBytes.
paymentProofUploadUrlSchema(body) ==
    /\ body.contentType \in paymentProofAllowedMimeTypes
    /\ body.contentLength.type = "number"
    /\ ~body.contentLength.fraction
    /\ body.contentLength.whole > 0
    /\ body.contentLength.whole <= paymentProofMaxBytes

\* The bodies of the upload-url requests of the workflow.
UploadBodies ==
    {[contentType |-> contentType, contentLength |-> Whole(1)] :
        contentType \in UploadContentTypes}

\* Bodies of every allowed type and of one that is not, with lengths at and
\* around the limits, one with a fraction and one sent as a string.
RawUploadBodies ==
    { [contentType |-> contentType, contentLength |-> contentLength] :
        contentType \in paymentProofAllowedMimeTypes \cup {"application/pdf"},
        contentLength \in { Whole(0 - 1), Whole(0), Whole(1), Whole(paymentProofMaxBytes),
                            Whole(paymentProofMaxBytes + 1), Fraction(1), Digits(1) } }

\* applications/${userId}/payment-proof-${Date.now()}-${randomUUID()}.${extension}:
\* the timestamp and the UUID make the key new; serial stands for them.
buildPaymentProofObjectKey(userId, contentType, serial) ==
    [userId |-> userId, serial |-> serial, extension |-> mimeToExtension(contentType)]

\* An upload-url update that leaves the payment verification in place.
UploadUrlDataKeepsVerification(row, objectKey, at) ==
    [ row EXCEPT !.paymentProofKey = Some(objectKey),
                 !.paymentProofUploadedAt = Some(at) ]

\* POST /application/payment-proof/upload-url: the data of the update.
UploadUrlData(row, objectKey, at) ==
    [ row EXCEPT !.paymentProofKey = Some(objectKey),
                 !.paymentProofUploadedAt = Some(at),
                 !.paymentVerifiedAt = NULL,
                 !.paymentVerifiedByUserId = NULL ]

\* A request without a session: req.user is undefined.
Anonymous == "anonymous"
Actors == Users \cup {Anonymous}

\* requireAuth: 401 without a session.
requireAuth(user) == IF user = Anonymous THEN "unauthorized" ELSE "ok"

\* A requireAdmin that lets every signed-in user through.
requireAdminAnyRole(user) == IF user = Anonymous THEN "unauthorized" ELSE "ok"

\* requireAdmin: 401 without a session, 403 for a role other than ADMIN.
requireAdmin(user) ==
    IF user = Anonymous THEN "unauthorized"
    ELSE IF Role(user) # "ADMIN" THEN "forbidden"
    ELSE "ok"

\* The payment-verify guards without the DRAFT check.
PaymentVerifyErrorAnyStatus(application) ==
    IF application = NULL THEN "application_not_found"
    ELSE IF Val(application).paymentProofKey = NULL THEN "payment_proof_missing"
    ELSE "ok"

\* POST /admin/applications/:id/payment-verify: the guards before the HEAD.
PaymentVerifyError(application) ==
    IF application = NULL THEN "application_not_found"
    ELSE IF Val(application).paymentProofKey = NULL THEN "payment_proof_missing"
    ELSE IF Val(application).status = "DRAFT" THEN "application_not_submitted"
    ELSE "ok"

\* The failures of a HeadObjectCommand other than NotFound: credentials, transport.
HeadFailures == {"Forbidden", "Unavailable"}

\* Everything a HeadObjectCommand can answer.
HeadOutcomes == {"ok", "NotFound"} \cup HeadFailures

\* What a HeadObjectCommand can answer for a key: the object's presence, or any
\* other failure (transport, credentials, configuration).
HeadResults(objectKey) ==
    {IF objectKey \in objects THEN "ok" ELSE "NotFound"} \cup HeadFailures

\* An existence check that reports every failure as an absence.
paymentProofObjectExistsSwallow(headResult) ==
    IF headResult = "ok" THEN "true" ELSE "false"

\* paymentProofObjectExists: true, false, or the error rethrown.
paymentProofObjectExists(headResult) ==
    IF headResult = "ok" THEN "true"
    ELSE IF headResult = "NotFound" THEN "false"
    ELSE "throw"

\* An outcome that takes an absent object for a present one.
PaymentVerifyHeadErrorIgnoresAbsence(exists) ==
    IF exists = "throw" THEN "storage_unavailable" ELSE "ok"

\* POST /admin/applications/:id/payment-verify: the outcome of the existence
\* check: the catch, then the test of exists.
PaymentVerifyHeadError(exists) ==
    IF exists = "throw" THEN "storage_unavailable"
    ELSE IF exists = "false" THEN "payment_proof_not_found"
    ELSE "ok"

\* POST /admin/applications/:id/payment-verify: the data of the update.
PaymentVerifyData(row, admin, at) ==
    [ row EXCEPT !.paymentVerifiedAt = Some(at),
                 !.paymentVerifiedByUserId = Some(admin) ]

\* The decision bodies of the model: an acceptance without a note, a rejection
\* with one.  Both pass applicationDecisionSchema.
DecisionBodies ==
    { [status |-> "ACCEPTED", decisionNote |-> NULL],
      [status |-> "REJECTED", decisionNote |-> Some("note")] }

\* The decision guards without the payment check.
DecisionErrorUnverified(application, body) ==
    IF application = NULL THEN "application_not_found"
    ELSE IF Val(application).status = "DRAFT" THEN "application_not_submitted"
    ELSE "ok"

\* The decision guards without the DRAFT check.
DecisionErrorDraft(application, body) ==
    IF application = NULL THEN "application_not_found"
    ELSE IF body.status = "ACCEPTED" /\ Val(application).paymentVerifiedAt = NULL
         THEN "payment_not_verified"
         ELSE "ok"

\* POST /admin/applications/:id/decision: the guards.
DecisionError(application, body) ==
    IF application = NULL THEN "application_not_found"
    ELSE IF Val(application).status = "DRAFT" THEN "application_not_submitted"
    ELSE IF body.status = "ACCEPTED" /\ Val(application).paymentVerifiedAt = NULL
         THEN "payment_not_verified"
         ELSE "ok"

\* A decision update that also drops the payment verification.
DecisionDataDropsVerification(row, body, admin, at) ==
    [ row EXCEPT !.status = body.status,
                 !.reviewedAt = Some(at),
                 !.reviewedByUserId = Some(admin),
                 !.decisionNote = body.decisionNote,
                 !.paymentVerifiedAt = NULL,
                 !.paymentVerifiedByUserId = NULL ]

\* POST /admin/applications/:id/decision: the data of the update.
DecisionData(row, body, admin, at) ==
    [ row EXCEPT !.status = body.status,
                 !.reviewedAt = Some(at),
                 !.reviewedByUserId = Some(admin),
                 !.decisionNote = body.decisionNote ]

\* The ids an admin request names; one names no row until its owner has started.
ParamIds == 1..Cardinality(Members)
----------------------------------------------------------------------------
Init ==
    /\ applications = << >>
    /\ objects = {}
    /\ issued = 0
    /\ urls = {}
    /\ now = 1
    /\ inflight = EmptyBag
    /\ response = NoResponse
    /\ audit = << >>
    /\ onboardingResponses = << >>
    /\ onboardingCompletedAt = [u \in Users |-> NULL]
    /\ csrfTokenCache = NULL
    /\ apiCall = NULL

\* A handler is entered while fewer than MaxInFlight requests are in flight.
Admit(q) == inflight (+) SetToBag({q})
Retire(q) == inflight (-) SetToBag({q})
Resume(q, next) == (inflight (-) SetToBag({q})) (+) SetToBag({next})
CanAdmit == BagCardinality(inflight) < MaxInFlight

\* POST /application/start: the existence read.
StartRead(u) ==
    /\ CanAdmit
    /\ IF FindByUserId(u) # NULL
       THEN /\ response' =
                   Respond("start", u,
                           [created |-> FALSE,
                            data |-> ExistingSelect(Val(FindByUserId(u)))], "ok")
            /\ UNCHANGED inflight
       ELSE /\ inflight' = Admit([pc |-> "create", op |-> "start", by |-> u])
            /\ response' = NoResponse
    /\ UNCHANGED << applications, objects, issued, urls, now, audit,
                    onboardingResponses, onboardingCompletedAt, csrfTokenCache, apiCall >>

\* POST /application/start: the create, under the unique index on userId.
StartCreate(q) ==
    /\ q.pc = "create"
    /\ IF UserIdUnique(applications, q.by)
       THEN /\ applications' =
                   Append(applications, StartData(Len(applications) + 1, q.by, now))
            /\ audit' = Append(audit, NoAudit)
            /\ response' =
                   Respond("start", q.by,
                           [created |-> TRUE,
                            data |-> CreatedSelect(
                                        StartData(Len(applications) + 1, q.by, now))],
                           "ok")
       ELSE /\ response' = Respond("start", q.by, [prisma |-> "P2002"], "duplicate")
            /\ UNCHANGED << applications, audit >>
    /\ inflight' = Retire(q)
    /\ UNCHANGED << objects, issued, urls, now,
                    onboardingResponses, onboardingCompletedAt, csrfTokenCache, apiCall >>

\* POST /application: validateBody, which hands the handler result.data, then
\* the read and the guards.
SubmitRead(u, validated) ==
    /\ CanAdmit
    /\ IF ~validated.success
       THEN /\ response' = Respond("submit", u, validated.body, "validation_error")
            /\ UNCHANGED inflight
       ELSE
       LET answers == validated.body
           existing == FindByUserId(u)
           error == SubmitError(existing, answers) IN
       IF error = "ok"
       THEN /\ inflight' = Admit([pc |-> "write", op |-> "submit", by |-> u,
                                  id |-> Val(existing).id, answers |-> answers])
            /\ response' = NoResponse
       ELSE /\ response' =
                   IF error = "application_incomplete"
                   THEN RespondWith("submit", u, answers, error,
                                    IncompleteDetails(existing, answers))
                   ELSE Respond("submit", u, answers, error)
            /\ UNCHANGED inflight
    /\ UNCHANGED << applications, objects, issued, urls, now, audit,
                    onboardingResponses, onboardingCompletedAt, csrfTokenCache, apiCall >>

\* POST /application: the update.
SubmitWrite(q) ==
    /\ q.pc = "write"
    /\ q.op = "submit"
    /\ applications' = [applications EXCEPT ![q.id] = SubmitData(@, q.answers, now)]
    /\ audit' = [audit EXCEPT ![q.id].confirmedKey = NULL]
    /\ response' = Respond("submit", q.by, q.answers, "ok")
    /\ inflight' = Retire(q)
    /\ UNCHANGED << objects, issued, urls, now,
                    onboardingResponses, onboardingCompletedAt, csrfTokenCache, apiCall >>

\* POST /application/reapply: validateBody, which hands the handler
\* result.data, then the read and the guards.
ReapplyRead(u, validated) ==
    /\ CanAdmit
    /\ IF ~validated.success
       THEN /\ response' = Respond("reapply", u, validated.body, "validation_error")
            /\ UNCHANGED inflight
       ELSE
       LET answers == validated.body
           existing == FindByUserId(u)
           error == ReapplyError(existing, answers) IN
       IF error = "ok"
       THEN /\ inflight' = Admit([pc |-> "write", op |-> "reapply", by |-> u,
                                  id |-> Val(existing).id, answers |-> answers])
            /\ response' = NoResponse
       ELSE /\ response' =
                   IF error = "application_incomplete"
                   THEN RespondWith("reapply", u, answers, error,
                                    IncompleteDetails(existing, answers))
                   ELSE Respond("reapply", u, answers, error)
            /\ UNCHANGED inflight
    /\ UNCHANGED << applications, objects, issued, urls, now, audit,
                    onboardingResponses, onboardingCompletedAt, csrfTokenCache, apiCall >>

\* POST /application/reapply: the update.
ReapplyWrite(q) ==
    /\ q.pc = "write"
    /\ q.op = "reapply"
    /\ applications' = [applications EXCEPT ![q.id] = ReapplyData(@, q.answers, now)]
    /\ audit' = [audit EXCEPT ![q.id].confirmedKey = NULL]
    /\ response' = Respond("reapply", q.by, q.answers, "ok")
    /\ inflight' = Retire(q)
    /\ UNCHANGED << objects, issued, urls, now,
                    onboardingResponses, onboardingCompletedAt, csrfTokenCache, apiCall >>

\* POST /application/payment-proof/upload-url: validateBody, the read, the
\* guards, the new key and the signing of the upload URL, which succeeds (signed) or throws.
UploadUrlRead(u, body, signed) ==
    /\ CanAdmit
    /\ LET existing == FindByUserId(u)
           error == IF ~paymentProofUploadUrlSchema(body) THEN "validation_error"
                    ELSE UploadUrlError(existing)
           objectKey == buildPaymentProofObjectKey(u, body.contentType, issued + 1) IN
       IF error # "ok"
       THEN /\ response' = Respond("upload-url", u, body, error)
            /\ UNCHANGED << inflight, issued >>
       ELSE IF ~signed
       THEN /\ response' = Respond("upload-url", u, body, "storage_unavailable")
            /\ UNCHANGED << inflight, issued >>
       ELSE /\ issued < MaxKeys
            /\ issued' = issued + 1
            /\ inflight' = Admit([pc |-> "write", op |-> "upload-url", by |-> u,
                                  id |-> Val(existing).id, objectKey |-> objectKey])
            /\ response' = NoResponse
    /\ UNCHANGED << applications, objects, urls, now, audit,
                    onboardingResponses, onboardingCompletedAt, csrfTokenCache, apiCall >>

\* POST /application/payment-proof/upload-url: the update, then the URL is returned.
UploadUrlWrite(q) ==
    /\ q.pc = "write"
    /\ q.op = "upload-url"
    /\ applications' = [applications EXCEPT ![q.id] = UploadUrlData(@, q.objectKey, now)]
    /\ audit' = [audit EXCEPT
                    ![q.id].confirmedKey = NULL,
                    ![q.id].proof = IF @ = "none" THEN "none" ELSE "reuploaded"]
    /\ urls' = urls \cup {q.objectKey}
    /\ response' = Respond("upload-url", q.by, q.objectKey, "ok")
    /\ inflight' = Retire(q)
    /\ UNCHANGED << objects, issued, now,
                    onboardingResponses, onboardingCompletedAt, csrfTokenCache, apiCall >>

\* POST /admin/applications/:id/payment-verify: requireAdmin, the read, the guards.
PaymentVerifyRead(u, id) ==
    /\ CanAdmit
    /\ LET application == FindById(id)
           error == IF requireAdmin(u) # "ok" THEN requireAdmin(u)
                    ELSE PaymentVerifyError(application) IN
       IF error = "ok"
       THEN /\ inflight' = Admit([pc |-> "head", op |-> "payment-verify", by |-> u,
                                  id |-> id,
                                  objectKey |-> Val(Val(application).paymentProofKey)])
            /\ response' = NoResponse
       ELSE /\ response' = Respond("payment-verify", u, [id |-> id], error)
            /\ UNCHANGED inflight
    /\ UNCHANGED << applications, objects, issued, urls, now, audit,
                    onboardingResponses, onboardingCompletedAt, csrfTokenCache, apiCall >>

\* POST /admin/applications/:id/payment-verify: the existence check in storage.
PaymentVerifyHead(q, headResult) ==
    /\ q.pc = "head"
    /\ headResult \in HeadResults(q.objectKey)
    /\ LET error == PaymentVerifyHeadError(paymentProofObjectExists(headResult)) IN
       IF error = "ok"
       THEN /\ inflight' = Resume(q, [q EXCEPT !.pc = "write"])
            /\ response' = NoResponse
       ELSE /\ inflight' = Retire(q)
            /\ response' = Respond("payment-verify", q.by, [id |-> q.id], error)
    /\ UNCHANGED << applications, objects, issued, urls, now, audit,
                    onboardingResponses, onboardingCompletedAt, csrfTokenCache, apiCall >>

\* POST /admin/applications/:id/payment-verify: the update.
PaymentVerifyWrite(q) ==
    /\ q.pc = "write"
    /\ q.op = "payment-verify"
    /\ applications' = [applications EXCEPT ![q.id] = PaymentVerifyData(@, q.by, now)]
    /\ audit' = [audit EXCEPT
                    ![q.id].confirmedKey = Some(q.objectKey),
                    ![q.id].proof = "verified"]
    /\ response' = Respond("payment-verify", q.by, [id |-> q.id], "ok")
    /\ inflight' = Retire(q)
    /\ UNCHANGED << objects, issued, urls, now,
                    onboardingResponses, onboardingCompletedAt, csrfTokenCache, apiCall >>

\* POST /admin/applications/:id/decision: requireAdmin, the read, the guards.
\* The request in flight keeps the status of the row it read (read).
DecisionRead(u, id, body) ==
    /\ CanAdmit
    /\ LET application == FindById(id)
           error == IF requireAdmin(u) # "ok" THEN requireAdmin(u)
                    ELSE DecisionError(application, body) IN
       IF error = "ok"
       THEN /\ inflight' = Admit([pc |-> "write", op |-> "decision", by |-> u,
                                  id |-> id, body |-> body,
                                  read |-> Val(application).status])
            /\ response' = NoResponse
       ELSE /\ response' = Respond("decision", u, [id |-> id, status |-> body.status], error)
            /\ UNCHANGED inflight
    /\ UNCHANGED << applications, objects, issued, urls, now, audit,
                    onboardingResponses, onboardingCompletedAt, csrfTokenCache, apiCall >>

\* POST /admin/applications/:id/decision: the update.
DecisionWrite(q) ==
    /\ q.pc = "write"
    /\ q.op = "decision"
    /\ applications' = [applications EXCEPT ![q.id] = DecisionData(@, q.body, q.by, now)]
    /\ response' = Respond("decision", q.by, [id |-> q.id, status |-> q.body.status], "ok")
    /\ inflight' = Retire(q)
    /\ UNCHANGED << objects, issued, urls, now, audit,
                    onboardingResponses, onboardingCompletedAt, csrfTokenCache, apiCall >>

----------------------------------------------------------------------------
\* The environment: the clock, and the bucket.

Tick ==
    /\ now < MaxTime
    /\ now' = now + 1
    /\ response' = NoResponse
    /\ UNCHANGED << applications, objects, issued, urls, inflight, audit,
                    onboardingResponses, onboardingCompletedAt, csrfTokenCache, apiCall >>

\* The client PUTs a file to a signed upload URL it was given.
PutObject(objectKey) ==
    /\ objectKey \in urls \ objects
    /\ objects' = objects \cup {objectKey}
    /\ response' = NoResponse
    /\ UNCHANGED << applications, issued, urls, now, inflight, audit,
                    onboardingResponses, onboardingCompletedAt, csrfTokenCache, apiCall >>

\* An object is removed from the bucket.
DeleteObject(objectKey) ==
    /\ objectKey \in objects
    /\ objects' = objects \ {objectKey}
    /\ response' = NoResponse
    /\ UNCHANGED << applications, issued, urls, now, inflight, audit,
                    onboardingResponses, onboardingCompletedAt, csrfTokenCache, apiCall >>

----------------------------------------------------------------------------
\* Onboarding: routes/onboarding and POST /admin/onboarding/reset/:userId, over
\* the OnboardingResponse table and User.onboardingCompletedAt.

\* The answers of the onboarding requests of the model: an object, and an
\* array, which z.record refuses.
OnboardingBodies == {Obj(1), Arr(1)}

\* onboardingSchema: answers is a record and not an array.
onboardingSchema(answers) == answers.type = "object"

\* prisma.onboardingResponse.findUnique({ where: { userId } }): the row, or NULL.
FindResponse(userId) ==
    IF \E i \in 1..Len(onboardingResponses) : onboardingResponses[i].userId = userId
    THEN Some(onboardingResponses[CHOOSE i \in 1..Len(onboardingResponses) :
                                      onboardingResponses[i].userId = userId])
    ELSE NULL

\* An OnboardingResponse table without the unique index.
OnboardingUserIdUniqueBroken(table, userId) == TRUE

\* The unique index OnboardingResponse_userId_key: may a row of this user be
\* inserted?
OnboardingUserIdUnique(table, userId) ==
    \A i \in 1..Len(table) : table[i].userId # userId

\* A transaction whose first statement stays when the second fails.
transactionFirstStays(before, after, committed) ==
    IF committed THEN after ELSE << after[1], before[2] >>

\* An eligibility check that is content with any application.
ensureOnboardingEligibilityAnyStatus(userId, role) ==
    IF role = "ADMIN" THEN "ok"
    ELSE IF FindByUserId(userId) = NULL THEN "membership_not_accepted"
    ELSE "ok"

\* ensureOnboardingEligibility: admins pass, a member needs an ACCEPTED application.
ensureOnboardingEligibility(userId, role) ==
    IF role = "ADMIN" THEN "ok"
    ELSE LET application == FindByUserId(userId) IN
         IF application = NULL \/ Val(application).status # "ACCEPTED"
         THEN "membership_not_accepted"
         ELSE "ok"

\* prisma.$transaction([...]): the statements take effect together or not at all.
transaction(before, after, committed) == IF committed THEN after ELSE before

\* The tables after the two statements of POST /onboarding.
OnboardingSubmitData(userId, answers, at) ==
    << Append(onboardingResponses,
              [userId |-> userId, answersJson |-> answers, submittedAt |-> at]),
       [onboardingCompletedAt EXCEPT ![userId] = Some(at)] >>

\* The tables after the two statements of the admin reset.
OnboardingResetData(userId) ==
    << SelectSeq(onboardingResponses, LAMBDA row : row.userId # userId),
       [onboardingCompletedAt EXCEPT ![userId] = NULL] >>

\* GET /onboarding: requireAuth and the eligibility read.
OnboardingGetEligibility(u) ==
    /\ CanAdmit
    /\ LET error == IF requireAuth(u) # "ok" THEN requireAuth(u)
                    ELSE ensureOnboardingEligibility(u, Role(u)) IN
       IF error = "ok"
       THEN /\ inflight' = Admit([pc |-> "find", op |-> "onboarding-get", by |-> u])
            /\ response' = NoResponse
       ELSE /\ response' = Respond("onboarding-get", u, NULL, error)
            /\ UNCHANGED inflight
    /\ UNCHANGED << applications, objects, issued, urls, now, audit,
                    onboardingResponses, onboardingCompletedAt, csrfTokenCache, apiCall >>

\* GET /onboarding: the read of the response and the answer.
OnboardingGetFind(q) ==
    /\ q.pc = "find"
    /\ q.op = "onboarding-get"
    /\ LET found == FindResponse(q.by) IN
       response' =
          Respond("onboarding-get", q.by,
                  [ completed |-> found # NULL,
                    submittedAt |-> IF found = NULL THEN NULL
                                    ELSE Some(Val(found).submittedAt),
                    answers |-> IF found = NULL THEN NULL
                                ELSE Some(Val(found).answersJson) ],
                  "ok")
    /\ inflight' = Retire(q)
    /\ UNCHANGED << applications, objects, issued, urls, now, audit,
                    onboardingResponses, onboardingCompletedAt, csrfTokenCache, apiCall >>

\* POST /onboarding: requireAuth, validateBody and the eligibility read.
OnboardingPostEligibility(u, answers) ==
    /\ CanAdmit
    /\ LET error == IF requireAuth(u) # "ok" THEN requireAuth(u)
                    ELSE IF ~onboardingSchema(answers) THEN "validation_error"
                    ELSE ensureOnboardingEligibility(u, Role(u)) IN
       IF error = "ok"
       THEN /\ inflight' = Admit([pc |-> "find", op |-> "onboarding-post", by |-> u,
                                  answers |-> answers])
            /\ response' = NoResponse
       ELSE /\ response' = Respond("onboarding-post", u, answers, error)
            /\ UNCHANGED inflight
    /\ UNCHANGED << applications, objects, issued, urls, now, audit,
                    onboardingResponses, onboardingCompletedAt, csrfTokenCache, apiCall >>

\* POST /onboarding: the existence read.
OnboardingPostFind(q) ==
    /\ q.pc = "find"
    /\ q.op = "onboarding-post"
    /\ IF FindResponse(q.by) # NULL
       THEN /\ response' = Respond("onboarding-post", q.by, q.answers, "already_completed")
            /\ inflight' = Retire(q)
       ELSE /\ response' = NoResponse
            /\ inflight' = Resume(q, [q EXCEPT !.pc = "tx"])
    /\ UNCHANGED << applications, objects, issued, urls, now, audit,
                    onboardingResponses, onboardingCompletedAt, csrfTokenCache, apiCall >>

\* POST /onboarding: the transaction that creates the response and sets the
\* marker.  The create fails on the unique index (P2002) when the user has a
\* row; the transaction may also fail for a reason of the database.
OnboardingPostTx(q, committed) ==
    /\ q.pc = "tx"
    /\ q.op = "onboarding-post"
    /\ IF ~OnboardingUserIdUnique(onboardingResponses, q.by)
       THEN /\ response' = Respond("onboarding-post", q.by, q.answers, "duplicate")
            /\ UNCHANGED << onboardingResponses, onboardingCompletedAt >>
       ELSE /\ LET result == transaction(<< onboardingResponses, onboardingCompletedAt >>,
                                         OnboardingSubmitData(q.by, q.answers, now),
                                         committed) IN
               /\ onboardingResponses' = result[1]
               /\ onboardingCompletedAt' = result[2]
            /\ response' = Respond("onboarding-post", q.by, q.answers,
                                   IF committed THEN "ok" ELSE "internal_error")
    /\ inflight' = Retire(q)
    /\ UNCHANGED << applications, objects, issued, urls, now, audit, csrfTokenCache, apiCall >>

\* POST /admin/onboarding/reset/:userId: requireAdmin and the transaction that
\* deletes the user's responses and clears the marker.
OnboardingReset(u, userId, committed) ==
    /\ CanAdmit
    /\ IF requireAdmin(u) # "ok"
       THEN /\ response' = Respond("onboarding-reset", u, [userId |-> userId], requireAdmin(u))
            /\ UNCHANGED << onboardingResponses, onboardingCompletedAt >>
       ELSE /\ LET result == transaction(<< onboardingResponses, onboardingCompletedAt >>,
                                         OnboardingResetData(userId), committed) IN
               /\ onboardingResponses' = result[1]
               /\ onboardingCompletedAt' = result[2]
            /\ response' = Respond("onboarding-reset", u, [userId |-> userId],
                                   IF committed THEN "ok" ELSE "internal_error")
    /\ UNCHANGED << applications, objects, issued, urls, now, inflight, audit, csrfTokenCache, apiCall >>

----------------------------------------------------------------------------
\* The admin's reads: GET /admin/applications and GET /admin/applications/:id.

\* createPaymentProofViewUrl: the signed GET URL of a key.
createPaymentProofViewUrl(objectKey) == [signedGet |-> objectKey]

\* A view URL that is handed out although signing threw.
ViewUrlIgnoresThrow(row, throws) ==
    IF row.paymentProofKey = NULL THEN NULL
    ELSE Some(createPaymentProofViewUrl(Val(row.paymentProofKey)))

\* The view URL of a row: null without a key, and null when signing throws.
ViewUrl(row, throws) ==
    IF row.paymentProofKey = NULL THEN NULL
    ELSE IF throws THEN NULL
    ELSE Some(createPaymentProofViewUrl(Val(row.paymentProofKey)))

\* The select of the listing, with the view URL added.
ListItem(row, throws) ==
    [ id |-> row.id,
      status |-> row.status,
      submittedAt |-> row.submittedAt,
      paymentProofKey |-> row.paymentProofKey,
      paymentProofUploadedAt |-> row.paymentProofUploadedAt,
      paymentVerifiedAt |-> row.paymentVerifiedAt,
      reviewedAt |-> row.reviewedAt,
      decisionNote |-> row.decisionNote,
      user |-> row.userId,
      paymentProofViewUrl |-> ViewUrl(row, throws) ]

\* The select of the detail read, with answers and the view URL added.
DetailItem(row, throws) ==
    [ id |-> row.id,
      status |-> row.status,
      answersJson |-> row.answersJson,
      submittedAt |-> row.submittedAt,
      paymentProofKey |-> row.paymentProofKey,
      paymentProofUploadedAt |-> row.paymentProofUploadedAt,
      paymentVerifiedAt |-> row.paymentVerifiedAt,
      reviewedAt |-> row.reviewedAt,
      decisionNote |-> row.decisionNote,
      user |-> row.userId,
      answers |-> row.answersJson,
      paymentProofViewUrl |-> ViewUrl(row, throws) ]

\* where: { status: { not: "DRAFT" } }.
ListWhere(row) == row.status # "DRAFT"

\* An ascending order.
ListOrderByAscending(a, b) == a.submittedAt <= b.submittedAt

\* orderBy: { submittedAt: "desc" }: may row a come directly before row b?
ListOrderBy(a, b) == a.submittedAt >= b.submittedAt

\* The results findMany may return: the rows that satisfy the where clause,
\* each once, in an order that satisfies orderBy; rows of equal submittedAt
\* come in any order.
FindMany ==
    LET ids == {id \in AppIds : ListWhere(applications[id])}
        n == Cardinality(ids) IN
    { [i \in 1..n |-> applications[order[i]]] :
        order \in { o \in [1..n -> ids] :
                      /\ \A i, j \in 1..n : i # j => o[i] # o[j]
                      /\ \A i \in 1..n :
                            i < n => ListOrderBy(applications[o[i]], applications[o[i + 1]]) } }

\* The keys of the table.
ProofKeys == {Val(applications[id].paymentProofKey) :
                 id \in {i \in AppIds : applications[i].paymentProofKey # NULL}}

\* GET /admin/applications: requireAdmin, findMany and the view URLs; signing
\* throws for the keys in failing.
AdminList(u, found, failing) ==
    /\ IF requireAdmin(u) # "ok"
       THEN response' = Respond("list", u, NULL, requireAdmin(u))
       ELSE /\ found \in FindMany
            /\ response' =
                  Respond("list", u,
                          [data |-> [i \in 1..Len(found) |->
                                        ListItem(found[i],
                                                 /\ found[i].paymentProofKey # NULL
                                                 /\ Val(found[i].paymentProofKey) \in failing)]],
                          "ok")
    /\ UNCHANGED << applications, objects, issued, urls, now, inflight, audit,
                    onboardingResponses, onboardingCompletedAt, csrfTokenCache, apiCall >>

\* GET /admin/applications/:id: requireAdmin, findUnique and the view URL.
AdminDetail(u, id, throws) ==
    /\ response' =
          IF requireAdmin(u) # "ok" THEN Respond("detail", u, [id |-> id], requireAdmin(u))
          ELSE IF FindById(id) = NULL
          THEN Respond("detail", u, [id |-> id], "application_not_found")
          ELSE Respond("detail", u, [id |-> id, data |-> DetailItem(Val(FindById(id)), throws)],
                       "ok")
    /\ UNCHANGED << applications, objects, issued, urls, now, inflight, audit,
                    onboardingResponses, onboardingCompletedAt, csrfTokenCache, apiCall >>

----------------------------------------------------------------------------
\* The completeness evaluator on its own: utils/applicationCompleteness.

\* The JavaScript values a field of the model's inputs takes.
JsValues ==
    { Undefined, JsNull,
      Str(<< >>), Str(<< " " >>), Str(<< "\t", "\n" >>), Str(<< "a" >>), Str(<< " ", "a", " " >>),
      Num("finite"), Num("NaN"), Num("Infinity"), Num("-Infinity"),
      Bool(TRUE), Bool(FALSE), Arr(0), Arr(1), Obj(0), Obj(1) }

\* A key the inputs leave out.
Absent == [type |-> "absent"]

\* A JavaScript object as the list of its entries in insertion order: every
\* required field answered, but fullName and amountPaid as given (or left
\* out), with a key outside the list ahead of them or not, in the canonical
\* order of the keys or its reverse.
EntriesOf(fullName, amountPaid, extra, reversed) ==
    LET all == [i \in 1..Len(requiredFieldIds) |->
                   << requiredFieldIds[i],
                      IF requiredFieldIds[i] = "fullName" THEN fullName
                      ELSE IF requiredFieldIds[i] = "amountPaid" THEN amountPaid
                      ELSE Str(<< "a" >>) >>]
        given == SelectSeq(all, LAMBDA entry : entry[2] # Absent)
        keyed == IF extra THEN << << "nickname", Str(<< "a" >>) >> >> \o given ELSE given IN
    IF reversed THEN [i \in 1..Len(keyed) |-> keyed[Len(keyed) + 1 - i]] ELSE keyed

\* The objects of the model's calls: fullName takes every value, amountPaid
\* the numbers.
CompletenessInputs ==
    { EntriesOf(fullName, amountPaid, extra, reversed) :
         fullName \in JsValues \cup {Absent},
         amountPaid \in {Absent, Num("finite"), Num("NaN"), Num("Infinity")},
         extra \in BOOLEAN, reversed \in BOOLEAN }

\* The object of a list of entries: answers[key] is the value of the key's
\* last entry, whatever the order of the keys.
ObjectFromEntries(entries) ==
    [ key \in {entries[i][1] : i \in 1..Len(entries)} |->
        entries[CHOOSE i \in 1..Len(entries) :
                   /\ entries[i][1] = key
                   /\ \A j \in 1..Len(entries) : entries[j][1] = key => j <= i][2] ]

\* A call of getMissingRequiredApplicationFields: the object passed and the
\* list returned.
Call(entries) ==
    [ entries |-> entries,
      missing |-> getMissingRequiredApplicationFields(ObjectFromEntries(entries)) ]

CompletenessCalls == {Call(entries) : entries \in CompletenessInputs}

\* A call of the evaluator; the response holds the object and the list.
Evaluate(call) ==
    /\ response' = RespondWith("completeness", NULL, call.entries, "ok", call.missing)
    /\ UNCHANGED << applications, objects, issued, urls, now, inflight, audit,
                    onboardingResponses, onboardingCompletedAt, csrfTokenCache, apiCall >>

----------------------------------------------------------------------------
\* The time-to-live of the signed URLs: storage/minio and config/env.

\* A time-to-live that is capped but has no floor.
normalizeTtlNoFloor(ttlSeconds) == IF ttlSeconds < 3600 THEN ttlSeconds ELSE 3600

\* normalizeTtl: Math.max(60, Math.min(ttlSeconds, 3600)).
normalizeTtl(ttlSeconds) ==
    LET capped == IF ttlSeconds < 3600 THEN ttlSeconds ELSE 3600 IN
    IF capped > 60 THEN capped ELSE 60

\* toNumber(process.env.MINIO_SIGNED_URL_TTL_SECONDS, 900): the number the
\* variable holds, 900 when it is unset or no finite number.
toNumber(value, fallback) == IF value = NULL THEN fallback ELSE Val(value)

\* The values the model configures or requests: around the two ends of the
\* band, the default, and none.
TtlValues == (0 - 5 .. 125) \cup (3590 .. 3610) \cup {900, 86400}
TtlInputs == {NULL} \cup {Some(ttl) : ttl \in TtlValues}

\* createPaymentProofUploadUrl signs with the configured value, and
\* createPaymentProofViewUrl with its ttlSeconds argument, 900 by default.
ExpiresIn(use, value) ==
    IF use = "upload" THEN normalizeTtl(toNumber(value, 900))
    ELSE normalizeTtl(IF value = NULL THEN 900 ELSE Val(value))

\* A URL is signed; the response holds the value given and the expiry used.
SignUrl(use, value) ==
    /\ response' = RespondWith("sign", NULL, [use |-> use, ttlSeconds |-> value], "ok",
                               ExpiresIn(use, value))
    /\ UNCHANGED << applications, objects, issued, urls, now, inflight, audit,
                    onboardingResponses, onboardingCompletedAt, csrfTokenCache, apiCall >>

----------------------------------------------------------------------------
\* The frontend API client (lib/api): getCsrfToken and apiFetch.

MaxTokens == 2
Tokens == 1..MaxTokens
Methods == {"GET", "POST"}

\* What a fetch gives: a rejected promise, or a response with its ok flag,
\* whether its content type is JSON, and what the JSON body holds.
Fetched(ok, json, code, csrfToken) ==
    [rejected |-> FALSE, ok |-> ok, json |-> json, code |-> code, csrfToken |-> csrfToken]
Rejected ==
    [rejected |-> TRUE, ok |-> FALSE, json |-> FALSE, code |-> NULL, csrfToken |-> NULL]

\* The answers to the request itself.
RequestAnswers ==
    {Rejected, Fetched(TRUE, TRUE, NULL, NULL), Fetched(FALSE, FALSE, NULL, NULL),
     Fetched(FALSE, TRUE, NULL, NULL)}
    \cup {Fetched(FALSE, TRUE, Some(code), NULL) :
            code \in {"invalid_csrf_token", "validation_error"}}

\* The answers of GET /auth/csrf.
CsrfAnswers ==
    {Rejected, Fetched(TRUE, TRUE, NULL, NULL), Fetched(FALSE, FALSE, NULL, NULL),
     Fetched(FALSE, TRUE, Some("rate_limited"), NULL)}
    \cup {Fetched(TRUE, TRUE, NULL, Some(token)) : token \in Tokens}

\* The code of the ApiError built from a failed response.
readApiError(answer) ==
    IF ~answer.json THEN "request_failed"
    ELSE IF answer.code = NULL THEN "request_failed"
    ELSE Val(answer.code)

\* getCsrfToken: the cached token unless a refresh is forced or none is cached;
\* otherwise GET /auth/csrf, whose token is cached.  throws holds the error.
getCsrfToken(forceRefresh, cache, answer) ==
    IF ~forceRefresh /\ cache # NULL
    THEN [fetched |-> FALSE, throws |-> NULL, token |-> cache]
    ELSE IF answer.rejected
    THEN [fetched |-> TRUE, throws |-> Some("TypeError"), token |-> NULL]
    ELSE IF ~answer.ok
    THEN [fetched |-> TRUE, throws |-> Some(readApiError(answer)), token |-> NULL]
    ELSE IF answer.csrfToken = NULL
    THEN [fetched |-> TRUE, throws |-> Some("missing_csrf_token"), token |-> NULL]
    ELSE [fetched |-> TRUE, throws |-> NULL, token |-> answer.csrfToken]

needsCsrf(method) == method \notin {"GET", "HEAD", "OPTIONS"}

\* The retry condition without the attempt check.
shouldRetryAnyAttempt(answer, attempt) ==
    answer.json /\ answer.code = Some("invalid_csrf_token")

\* The request is sent again when the JSON error code is invalid_csrf_token
\* and this was the first attempt.
shouldRetry(answer, attempt) ==
    answer.json /\ answer.code = Some("invalid_csrf_token") /\ attempt = 0

\* What the caller of apiFetch gets: the call, the result, how many times the
\* request was sent and the last answer to it.
Return(frame, code) ==
    RespondWith("apiFetch", NULL, [method |-> frame.method, header |-> frame.header], code,
                [sends |-> frame.sends, attempt |-> frame.attempt,
                 received |-> frame.received])

\* apiFetch(path, init) is called; header tells whether init.headers carries
\* an X-CSRF-Token of the caller's.
ApiFetch(method, header) ==
    /\ apiCall = NULL
    /\ apiCall' = [method |-> method, header |-> header, attempt |-> 0, pc |-> "headers",
                token |-> NULL, refreshed |-> FALSE, sends |-> 0, received |-> NULL]
    /\ response' = NoResponse
    /\ UNCHANGED << applications, objects, issued, urls, now, inflight, audit,
                    onboardingResponses, onboardingCompletedAt, csrfTokenCache >>

\* The headers are built: a request that needs a CSRF token and carries none
\* awaits getCsrfToken(attempt > 0), whose error leaves apiFetch.
ApiFetchHeaders(answer) ==
    /\ apiCall # NULL
    /\ apiCall.pc = "headers"
    /\ IF needsCsrf(apiCall.method) /\ ~apiCall.header
       THEN LET result == getCsrfToken(apiCall.attempt > 0, csrfTokenCache, answer) IN
            IF result.throws # NULL
            THEN /\ response' = Return(apiCall, Val(result.throws))
                 /\ apiCall' = NULL
                 /\ UNCHANGED csrfTokenCache
            ELSE /\ csrfTokenCache' = result.token
                 /\ apiCall' = [apiCall EXCEPT !.pc = "fetch", !.token = result.token,
                                         !.refreshed = result.fetched]
                 /\ response' = NoResponse
       ELSE /\ apiCall' = [apiCall EXCEPT !.pc = "fetch", !.token = NULL, !.refreshed = FALSE]
            /\ response' = NoResponse
            /\ UNCHANGED csrfTokenCache
    /\ UNCHANGED << applications, objects, issued, urls, now, inflight, audit,
                    onboardingResponses, onboardingCompletedAt >>

\* The request is sent and its answer handled: the result on success, one
\* more call of apiFetch when shouldRetry, the ApiError otherwise.
ApiFetchSend(answer) ==
    /\ apiCall # NULL
    /\ apiCall.pc = "fetch"
    /\ LET sent == [apiCall EXCEPT !.sends = apiCall.sends + 1, !.received = Some(answer)] IN
       IF answer.rejected
       THEN /\ response' = Return(sent, "TypeError")
            /\ apiCall' = NULL
            /\ UNCHANGED csrfTokenCache
       ELSE IF answer.ok
       THEN /\ response' = Return(sent, "ok")
            /\ apiCall' = NULL
            /\ UNCHANGED csrfTokenCache
       ELSE IF shouldRetry(answer, apiCall.attempt)
       THEN /\ csrfTokenCache' = NULL
            /\ apiCall' = [sent EXCEPT !.attempt = apiCall.attempt + 1, !.pc = "headers",
                                    !.token = NULL, !.refreshed = FALSE]
            /\ response' = NoResponse
       ELSE /\ response' = Return(sent, readApiError(answer))
            /\ apiCall' = NULL
            /\ UNCHANGED csrfTokenCache
    /\ UNCHANGED << applications, objects, issued, urls, now, inflight, audit,
                    onboardingResponses, onboardingCompletedAt >>

----------------------------------------------------------------------------
\* GET /application: the applicant's row with its capability flags.

\* The flags with upload open on DRAFT only.
ApplicationFlagsDraftUploadOnly(application) ==
    LET missingRequiredFields == getMissingRequiredApplicationFields(application.answersJson)
        missingPaymentProof == application.paymentProofKey = NULL IN
    [ status |-> application.status,
      canSubmit |-> application.status = "DRAFT",
      canReapply |-> application.status = "REJECTED",
      canUploadPaymentProof |-> application.status = "DRAFT",
      membershipGranted |-> application.status = "ACCEPTED",
      isCompleteForSubmission |-> Len(missingRequiredFields) = 0 /\ ~missingPaymentProof,
      missingRequiredFields |-> missingRequiredFields,
      missingPaymentProof |-> missingPaymentProof ]

\* The flags the handler computes from the row it has read.
ApplicationFlags(application) ==
    LET missingRequiredFields == getMissingRequiredApplicationFields(application.answersJson)
        missingPaymentProof == application.paymentProofKey = NULL IN
    [ status |-> application.status,
      canSubmit |-> application.status = "DRAFT",
      canReapply |-> application.status = "REJECTED",
      canUploadPaymentProof |->
          application.status = "DRAFT" \/ application.status = "REJECTED",
      membershipGranted |-> application.status = "ACCEPTED",
      isCompleteForSubmission |-> Len(missingRequiredFields) = 0 /\ ~missingPaymentProof,
      missingRequiredFields |-> missingRequiredFields,
      missingPaymentProof |-> missingPaymentProof ]

\* The handler: one findUnique by userId, then the response.
ApplicationGet(u) ==
    /\ LET application == FindByUserId(u) IN
       response' =
           IF application = NULL
           THEN RespondWith("application", u, NULL, "ok",
                            [hasApplication |-> FALSE, application |-> NULL])
           ELSE RespondWith("application", u, NULL, "ok",
                            [hasApplication |-> TRUE,
                             application |-> Some(ApplicationFlags(Val(application)))])
    /\ UNCHANGED << applications, objects, issued, urls, now, inflight, audit,
                    onboardingResponses, onboardingCompletedAt, csrfTokenCache, apiCall >>

----------------------------------------------------------------------------
InFlight == BagToSet(inflight)
NoneInFlight == inflight = EmptyBag

\* Requests interleave at their awaits.
Next ==
    \/ \E u \in Members : StartRead(u)
    \/ \E u \in Members, validated \in SubmitRequests : SubmitRead(u, validated)
    \/ \E u \in Members, validated \in ReapplyRequests : ReapplyRead(u, validated)
    \/ \E u \in Members, body \in UploadBodies, signed \in BOOLEAN :
          UploadUrlRead(u, body, signed)
    \/ \E u \in Users, id \in ParamIds : PaymentVerifyRead(u, id)
    \/ \E u \in Users, id \in ParamIds, body \in DecisionBodies : DecisionRead(u, id, body)
    \/ \E q \in InFlight : StartCreate(q)
    \/ \E q \in InFlight : SubmitWrite(q)
    \/ \E q \in InFlight : ReapplyWrite(q)
    \/ \E q \in InFlight : UploadUrlWrite(q)
    \/ \E q \in InFlight, headResult \in HeadOutcomes :
          PaymentVerifyHead(q, headResult)
    \/ \E q \in InFlight : PaymentVerifyWrite(q)
    \/ \E q \in InFlight : DecisionWrite(q)
    \/ Tick
    \/ \E objectKey \in urls : PutObject(objectKey)
    \/ \E objectKey \in objects : DeleteObject(objectKey)

\* Each request runs to completion before the next is taken up.
SeqNext ==
    \/ \E u \in Members : NoneInFlight /\ StartRead(u)
    \/ \E u \in Members, validated \in SubmitRequests : NoneInFlight /\ SubmitRead(u, validated)
    \/ \E u \in Members, validated \in ReapplyRequests : NoneInFlight /\ ReapplyRead(u, validated)
    \/ \E u \in Members, body \in UploadBodies, signed \in BOOLEAN :
          NoneInFlight /\ UploadUrlRead(u, body, signed)
    \/ \E u \in Users, id \in ParamIds : NoneInFlight /\ PaymentVerifyRead(u, id)
    \/ \E u \in Users, id \in ParamIds, body \in DecisionBodies :
          NoneInFlight /\ DecisionRead(u, id, body)
    \/ \E q \in InFlight : StartCreate(q)
    \/ \E q \in InFlight : SubmitWrite(q)
    \/ \E q \in InFlight : ReapplyWrite(q)
    \/ \E q \in InFlight : UploadUrlWrite(q)
    \/ \E q \in InFlight, headResult \in HeadOutcomes :
          PaymentVerifyHead(q, headResult)
    \/ \E q \in InFlight : PaymentVerifyWrite(q)
    \/ \E q \in InFlight : DecisionWrite(q)
    \/ Tick
    \/ \E objectKey \in urls : PutObject(objectKey)
    \/ \E objectKey \in objects : DeleteObject(objectKey)

\* The routes of routes/application and routes/admin that write the Application table.
ApplicationOps == {"start", "submit", "reapply", "upload-url", "payment-verify", "decision"}

\* No request to the application workflow is in flight.
ApplicationQuiet == \A q \in InFlight : q.op \notin ApplicationOps

\* The application workflow one request at a time, up to a decision, with the
\* onboarding requests and the admin's reset interleaved at their awaits.
OnboardingNext ==
    \/ \E u \in Members : ApplicationQuiet /\ StartRead(u)
    \/ \E u \in Members : ApplicationQuiet /\ SubmitRead(u, validateBody(FullAnswers("a")))
    \/ \E u \in Members, body \in UploadBodies :
          ApplicationQuiet /\ UploadUrlRead(u, body, TRUE)
    \/ \E u \in Users, id \in ParamIds : ApplicationQuiet /\ PaymentVerifyRead(u, id)
    \/ \E u \in Users, id \in ParamIds, body \in DecisionBodies :
          ApplicationQuiet /\ DecisionRead(u, id, body)
    \/ \E q \in InFlight : StartCreate(q)
    \/ \E q \in InFlight : SubmitWrite(q)
    \/ \E q \in InFlight : UploadUrlWrite(q)
    \/ \E q \in InFlight : PaymentVerifyHead(q, "ok")
    \/ \E q \in InFlight : PaymentVerifyWrite(q)
    \/ \E q \in InFlight : DecisionWrite(q)
    \/ Tick
    \/ \E objectKey \in urls : PutObject(objectKey)
    \/ \E u \in Users : OnboardingGetEligibility(u)
    \/ \E q \in InFlight : OnboardingGetFind(q)
    \/ \E u \in Users, answers \in OnboardingBodies : OnboardingPostEligibility(u, answers)
    \/ \E q \in InFlight : OnboardingPostFind(q)
    \/ \E q \in InFlight, committed \in BOOLEAN : OnboardingPostTx(q, committed)
    \/ \E u \in Users, userId \in Users, committed \in BOOLEAN :
          OnboardingReset(u, userId, committed)

\* The applicants whose rows the review tables hold; row i belongs to the i-th.
Applicants == << "u1", "u2", "u3", "u4" >>

\* The states a row is in after its applicant's and the admin's requests, one
\* at a time: started; submitted with a proof; verified; accepted; rejected.
ReviewRows(id, at) ==
    LET userId == Applicants[id]
        objectKey == buildPaymentProofObjectKey(userId, "image/png", id)
        draft == StartData(id, userId, at)
        pending == SubmitData(UploadUrlData(draft, objectKey, at), FullAnswers("a"), at)
        verified == PaymentVerifyData(pending, "a1", at)
        accepted == DecisionData(verified, [status |-> "ACCEPTED", decisionNote |-> NULL],
                                 "a1", at)
        rejected == DecisionData(pending, [status |-> "REJECTED", decisionNote |-> Some("note")],
                                 "a1", at) IN
    {draft, pending, verified, accepted, rejected}

\* The tables of up to MaxRows such rows, submitted at times up to MaxTime.
ReviewTables ==
    UNION { { table \in [1..n -> UNION {ReviewRows(id, at) : id \in 1..n, at \in 1..MaxTime}] :
                \A id \in 1..n : \E at \in 1..MaxTime : table[id] \in ReviewRows(id, at) } :
            n \in 0..MaxRows }

\* The admin opens the review pages on a table that the applicants have filled.
InitReview ==
    /\ applications \in ReviewTables
    /\ objects = ProofKeys
    /\ urls = ProofKeys
    /\ issued = Len(applications)
    /\ now = MaxTime
    /\ inflight = EmptyBag
    /\ response = NoResponse
    /\ audit = [id \in AppIds |->
                   IF applications[id].paymentVerifiedAt = NULL THEN NoAudit
                   ELSE [confirmedKey |-> applications[id].paymentProofKey,
                         proof |-> "verified"]]
    /\ onboardingResponses = << >>
    /\ onboardingCompletedAt = [u \in Users |-> NULL]
    /\ csrfTokenCache = NULL
    /\ apiCall = NULL

\* The ids an admin request names on the review tables.
ReviewIds == 1..MaxRows

\* The admin routes, one request at a time.
ReviewNext ==
    \/ \E u \in Actors, found \in FindMany, failing \in SUBSET ProofKeys :
          NoneInFlight /\ AdminList(u, found, failing)
    \/ \E u \in Actors, id \in ReviewIds, throws \in BOOLEAN :
          NoneInFlight /\ AdminDetail(u, id, throws)
    \/ \E u \in Actors, id \in ReviewIds : NoneInFlight /\ PaymentVerifyRead(u, id)
    \/ \E u \in Actors, id \in ReviewIds, body \in DecisionBodies :
          NoneInFlight /\ DecisionRead(u, id, body)
    \/ \E q \in InFlight, headResult \in HeadOutcomes : PaymentVerifyHead(q, headResult)
    \/ \E q \in InFlight : PaymentVerifyWrite(q)
    \/ \E q \in InFlight : DecisionWrite(q)
    \/ \E u \in Actors, userId \in Users :
          NoneInFlight /\ OnboardingReset(u, userId, TRUE)

\* Calls of the evaluator, one after another.
CompletenessNext == \E call \in CompletenessCalls : Evaluate(call)

\* Signings of upload and view URLs, one after another.
TtlNext == \E use \in {"upload", "view"}, value \in TtlInputs : SignUrl(use, value)

\* The applicant's requests one at a time, the upload-url requests with every
\* body of RawUploadBodies, and the admin's decisions.
UploadNext ==
    \/ \E u \in Members : NoneInFlight /\ StartRead(u)
    \/ \E u \in Members, body \in RawUploadBodies, signed \in BOOLEAN :
          NoneInFlight /\ UploadUrlRead(u, body, signed)
    \/ \E u \in Members : NoneInFlight /\ SubmitRead(u, validateBody(FullAnswers("a")))
    \/ \E u \in Admins, id \in ParamIds, body \in DecisionBodies :
          NoneInFlight /\ DecisionRead(u, id, body)
    \/ \E q \in InFlight : StartCreate(q)
    \/ \E q \in InFlight : UploadUrlWrite(q)
    \/ \E q \in InFlight : SubmitWrite(q)
    \/ \E q \in InFlight : DecisionWrite(q)

Spec == Init /\ [][Next]_vars

SpecOnboarding == Init /\ [][OnboardingNext]_vars

SpecReview == InitReview /\ [][ReviewNext]_vars

SpecCompleteness == Init /\ [][CompletenessNext]_vars

\* The workflow, one request at a time, with the applicant reading the flags
\* at any moment.
CapabilityNext ==
    \/ SeqNext
    \/ \E u \in Members : ApplicationGet(u)
SpecCapability == Init /\ [][CapabilityNext]_vars

SpecTtl == Init /\ [][TtlNext]_vars

\* The client's calls, one at a time; a call in progress takes its next step,
\* since a fetch settles.
ApiFetchStep ==
    \/ \E answer \in CsrfAnswers : ApiFetchHeaders(answer)
    \/ \E answer \in RequestAnswers : ApiFetchSend(answer)
ApiFetchNext ==
    \/ \E method \in Methods, header \in BOOLEAN : ApiFetch(method, header)
    \/ ApiFetchStep
SpecApiFetch == Init /\ [][ApiFetchNext]_vars /\ WF_vars(ApiFetchStep)

SpecUpload == Init /\ [][UploadNext]_vars

SpecSeq == Init /\ [][SeqNext]_vars

----------------------------------------------------------------------------
\* Properties of the workflow.

\* The requests a step admits: those it adds to the requests in flight.
Arrivals == {q \in BagToSet(inflight') : CopiesIn(q, inflight') > CopiesIn(q, inflight)}

\* The rows of a table that belong to a user.
RowsOf(table, u) == {i \in 1..Len(table) : table[i].userId = u}

\* Does an answers map fill every required field?
Complete(answers) == \A f \in RequiredSet : hasNonEmptyValue(Lookup(answers, f))

\* The requests a step takes out of the requests in flight.
Departures == {q \in BagToSet(inflight) : CopiesIn(q, inflight) > CopiesIn(q, inflight')}

\* The required field identifiers an answers map leaves empty, in list order.
EmptyRequiredFields(answers) ==
    SelectSeq(requiredFieldIds, LAMBDA f : ~hasNonEmptyValue(Lookup(answers, f)))

\* The status from which a submit, or a reapply, goes on to its completeness check.
EntryStatus(op) == IF op = "submit" THEN "DRAFT" ELSE "REJECTED"

\* C1: when every request runs to completion before the next starts, every
\* ACCEPTED application has paymentVerifiedAt set.
C1_AcceptedImpliesVerified ==
    \A id \in AppIds :
        applications[id].status = "ACCEPTED" => applications[id].paymentVerifiedAt # NULL

\* An accepting decision has just been written.
C1_Accepted ==
    /\ response.op = "decision"
    /\ response.code = "ok"
    /\ response.arg.status = "ACCEPTED"
    /\ applications[response.arg.id].status = "ACCEPTED"

\* C2: the same under interleaving, where the read and the write of an accepting
\* decision are separate steps and a reapply or an upload-url may come between:
\* no application is ACCEPTED while its paymentVerifiedAt is null.
C2_AcceptedImpliesVerifiedInterleaved ==
    ~ \E id \in AppIds :
          /\ applications[id].status = "ACCEPTED"
          /\ applications[id].paymentVerifiedAt = NULL

\* C3: no user ever has two applications.  A start that answers created=true
\* created the user's only row; every other start answers with the 409 duplicate
\* or with the existing row, and adds nothing.
C3_OneApplicationPerUser ==
    [][ /\ \A u \in Members : Cardinality(RowsOf(applications', u)) <= 1
        /\ response'.op = "start" =>
              IF response'.code = "ok" /\ response'.arg.created
              THEN /\ RowsOf(applications, response'.by) = {}
                   /\ Cardinality(RowsOf(applications', response'.by)) = 1
              ELSE /\ response'.code = "duplicate" \/ ~response'.arg.created
                   /\ RowsOf(applications, response'.by) # {}
                   /\ applications' = applications ]_vars

\* The second of two interleaved starts has met the unique index.
C3_DuplicateStart ==
    /\ response.op = "start"
    /\ response.code = "duplicate"
    /\ Cardinality(RowsOf(applications, response.by)) = 1

\* C4: a successful upload-url stores a key never handed out before, different
\* from the row's key, and clears paymentVerifiedAt and paymentVerifiedByUserId.
\* Once a verified proof has been replaced and until a payment-verify succeeds
\* again, a decision request for ACCEPTED is never admitted: it is answered
\* payment_not_verified and changes nothing.
C4_ReuploadInvalidates ==
    [][ /\ (response'.op = "upload-url" /\ response'.code = "ok") =>
              \E id \in AppIds :
                  /\ applications[id].userId = response'.by
                  /\ response'.arg \notin urls
                  /\ applications[id].paymentProofKey # Some(response'.arg)
                  /\ applications'[id].paymentProofKey = Some(response'.arg)
                  /\ applications'[id].paymentVerifiedAt = NULL
                  /\ applications'[id].paymentVerifiedByUserId = NULL
        /\ \A q \in Arrivals :
              (q.op = "decision" /\ q.body.status = "ACCEPTED") =>
                  audit[q.id].proof # "reuploaded"
        /\ ( /\ response'.op = "decision"
             /\ response'.code # "ok"
             /\ response'.by \in Admins
             /\ response'.arg.status = "ACCEPTED"
             /\ response'.arg.id \in AppIds
             /\ audit[response'.arg.id].proof = "reuploaded" ) =>
                  /\ response'.code = "payment_not_verified"
                  /\ applications' = applications ]_vars

\* An accepting decision has been refused after a verified proof was replaced.
C4_RefusedAfterReupload ==
    /\ response.op = "decision"
    /\ response.code = "payment_not_verified"
    /\ response.arg.status = "ACCEPTED"
    /\ audit[response.arg.id].proof = "reuploaded"
    /\ applications[response.arg.id].paymentProofKey # NULL

\* C5: whenever an application becomes ACCEPTED, the key it then holds is the key
\* that the verification in force confirmed in storage, with no upload-url,
\* submit or reapply write since that verification.
C5_AcceptPrecededByVerify ==
    [][ \A id \in AppIds :
           (applications[id].status # "ACCEPTED" /\ applications'[id].status = "ACCEPTED") =>
               /\ applications'[id].paymentProofKey # NULL
               /\ audit'[id].confirmedKey = applications'[id].paymentProofKey ]_vars

\* C6: whenever paymentVerifiedAt is set, the key of the row is the key whose
\* object the verification that set it found in storage.
C6_VerifiedKeyConfirmed ==
    \A id \in AppIds :
        applications[id].paymentVerifiedAt # NULL =>
            audit[id].confirmedKey = applications[id].paymentProofKey

\* C7: an ACCEPTED application's paymentVerifiedAt is not later than its
\* reviewedAt.
C7_VerifiedBeforeReviewed ==
    \A id \in AppIds :
        applications[id].status = "ACCEPTED" =>
            /\ applications[id].paymentVerifiedAt # NULL
            /\ applications[id].reviewedAt # NULL
            /\ Val(applications[id].paymentVerifiedAt) <= Val(applications[id].reviewedAt)

\* C8, as stated: a decision request is admitted only for a PENDING application,
\* and a refused one changes nothing.
C8_DecideOnlyFromPending ==
    [][ /\ \A q \in Arrivals :
              q.op = "decision" => applications[q.id].status = "PENDING"
        /\ (response'.op = "decision" /\ response'.code # "ok") =>
              applications' = applications ]_vars

\* C8, amended: a decision request is admitted for a PENDING, ACCEPTED or
\* REJECTED application and never for a DRAFT one, which is answered
\* application_not_submitted; a refused request changes nothing; the write of an
\* admitted one sets the status asked for, on a row that is not a DRAFT, and
\* leaves every field but status, reviewedAt, reviewedByUserId and decisionNote
\* as it was.
C8_DecideOnlyFromSubmitted ==
    [][ /\ \A q \in Arrivals :
              q.op = "decision" =>
                  applications[q.id].status \in {"PENDING", "ACCEPTED", "REJECTED"}
        /\ (response'.op = "decision" /\ response'.code # "ok") =>
              /\ applications' = applications
              /\ ( /\ response'.by \in Admins
                   /\ response'.arg.id \in AppIds
                   /\ applications[response'.arg.id].status = "DRAFT" ) =>
                       response'.code = "application_not_submitted"
        /\ (response'.op = "decision" /\ response'.code = "ok") =>
              LET id == response'.arg.id IN
              /\ applications[id].status # "DRAFT"
              /\ applications'[id].status = response'.arg.status
              /\ \A f \in DOMAIN applications[id] \
                          {"status", "reviewedAt", "reviewedByUserId", "decisionNote"} :
                     applications'[id][f] = applications[id][f]
              /\ \A other \in AppIds \ {id} : applications'[other] = applications[other] ]_vars

\* A rejecting decision is in flight whose guards read an ACCEPTED application.
C8_DecisionOnAccepted ==
    \E q \in InFlight :
        /\ q.op = "decision"
        /\ q.read = "ACCEPTED"
        /\ q.body.status = "REJECTED"

\* C9: a reapply request is admitted only when the row it reads is REJECTED; on
\* a DRAFT, PENDING or ACCEPTED row a request that passed validateBody is
\* answered cannot_reapply, whether its payload is complete or not, and changes
\* nothing.
C9_ReapplyOnlyFromRejected ==
    [][ /\ \A q \in Arrivals :
              q.op = "reapply" => applications[q.id].status = "REJECTED"
        /\ (response'.op = "reapply" /\ response'.code # "ok") =>
              /\ applications' = applications
              /\ \A id \in AppIds :
                     ( /\ SchemaAccepts(response'.arg)
                       /\ applications[id].userId = response'.by
                       /\ applications[id].status \in {"DRAFT", "PENDING", "ACCEPTED"} ) =>
                           response'.code = "cannot_reapply" ]_vars

\* A reapply with a complete payload has been refused with cannot_reapply.
C9_CompleteReapplyRefused ==
    /\ response.op = "reapply"
    /\ response.code = "cannot_reapply"
    /\ Complete(response.arg)
    /\ \E id \in AppIds :
           /\ applications[id].userId = response.by
           /\ applications[id].paymentProofKey # NULL

\* C10: a submit request is admitted exactly when the row it reads is a DRAFT,
\* the payload fills every required field and paymentProofKey is set; a refused
\* one changes nothing.  The update of an admitted one is a single write that
\* sets answersJson to the payload, status to PENDING and submittedAt to now,
\* nulls reviewedAt, reviewedByUserId, decisionNote, paymentVerifiedAt and
\* paymentVerifiedByUserId, and keeps paymentProofKey and every other field.
C10_SubmitExactlyWhenComplete ==
    [][ /\ \A q \in Arrivals :
              q.op = "submit" =>
                  /\ applications[q.id].userId = q.by
                  /\ applications[q.id].status = "DRAFT"
                  /\ Complete(q.answers)
                  /\ applications[q.id].paymentProofKey # NULL
        /\ (response'.op = "submit" /\ response'.code # "ok") =>
              /\ applications' = applications
              /\ ~ \E id \in AppIds :
                       /\ applications[id].userId = response'.by
                       /\ applications[id].status = "DRAFT"
                       /\ Complete(response'.arg)
                       /\ applications[id].paymentProofKey # NULL
        /\ (response'.op = "submit" /\ response'.code = "ok") =>
              \E id \in AppIds :
                  /\ applications[id].userId = response'.by
                  /\ applications' =
                        [ applications EXCEPT ![id] =
                            [ id |-> applications[id].id,
                              userId |-> applications[id].userId,
                              answersJson |-> response'.arg,
                              status |-> "PENDING",
                              paymentProofKey |-> applications[id].paymentProofKey,
                              paymentProofUploadedAt |-> applications[id].paymentProofUploadedAt,
                              paymentVerifiedAt |-> NULL,
                              paymentVerifiedByUserId |-> NULL,
                              submittedAt |-> now,
                              reviewedAt |-> NULL,
                              reviewedByUserId |-> NULL,
                              decisionNote |-> NULL ] ] ]_vars

\* A complete submit has just been written.
C10_Submitted ==
    /\ response.op = "submit"
    /\ response.code = "ok"
    /\ \E id \in AppIds :
           /\ applications[id].userId = response.by
           /\ applications[id].status = "PENDING"
           /\ applications[id].answersJson = FullAnswers("a")
           /\ applications[id].paymentProofKey # NULL

\* C11: a reapply with complete answers is never refused while the applicant's
\* application is REJECTED, and its update sets answersJson to the payload,
\* status to PENDING and submittedAt to now, nulls reviewedAt, reviewedByUserId,
\* decisionNote, paymentVerifiedAt and paymentVerifiedByUserId, and keeps
\* paymentProofKey, paymentProofUploadedAt and the rest of the table.
C11_ReapplyRestartsCycle ==
    [][ /\ (response'.op = "reapply" /\ response'.code # "ok") =>
              ~ \E id \in AppIds :
                    /\ applications[id].userId = response'.by
                    /\ applications[id].status = "REJECTED"
                    /\ Complete(response'.arg)
        /\ (response'.op = "reapply" /\ response'.code = "ok") =>
              \E id \in AppIds :
                  /\ applications[id].userId = response'.by
                  /\ applications' =
                        [ applications EXCEPT ![id] =
                            [ id |-> applications[id].id,
                              userId |-> applications[id].userId,
                              answersJson |-> response'.arg,
                              status |-> "PENDING",
                              paymentProofKey |-> applications[id].paymentProofKey,
                              paymentProofUploadedAt |-> applications[id].paymentProofUploadedAt,
                              paymentVerifiedAt |-> NULL,
                              paymentVerifiedByUserId |-> NULL,
                              submittedAt |-> now,
                              reviewedAt |-> NULL,
                              reviewedByUserId |-> NULL,
                              decisionNote |-> NULL ] ] ]_vars

\* A rejected application has just been resubmitted.
C11_Reapplied ==
    /\ response.op = "reapply"
    /\ response.code = "ok"
    /\ \E id \in AppIds :
           /\ applications[id].userId = response.by
           /\ applications[id].status = "PENDING"
           /\ applications[id].answersJson = FullAnswers("b")
           /\ applications[id].paymentProofKey # NULL
           /\ applications[id].reviewedAt = NULL

\* C12, as stated: a submit on a DRAFT, or a reapply on a REJECTED application,
\* whose payload leaves required fields empty is answered application_incomplete,
\* with the empty required identifiers in list order and missingPaymentProof
\* true exactly when paymentProofKey is null, and changes nothing.
C12_EmptyFieldsAnsweredIncomplete ==
    [][ \A id \in AppIds :
           ( /\ response'.op \in {"submit", "reapply"}
             /\ response'.code # "ok"
             /\ applications[id].userId = response'.by
             /\ applications[id].status = EntryStatus(response'.op)
             /\ ~Complete(response'.arg) ) =>
                 /\ response'.code = "application_incomplete"
                 /\ Val(response'.details).missingRequiredFields =
                        EmptyRequiredFields(response'.arg)
                 /\ Val(response'.details).missingPaymentProof =
                        (applications[id].paymentProofKey = NULL)
                 /\ applications' = applications ]_vars

\* C12, amended: a payload with a blank required field does not pass
\* validateBody and is answered validation_error; a payload that passes it and
\* still leaves a required field without a value (an amountPaid that is not
\* finite) is answered application_incomplete on a DRAFT (submit) or REJECTED
\* (reapply) application.  Every application_incomplete answer lists exactly the
\* required identifiers without a value, in list order, and has
\* missingPaymentProof true exactly when paymentProofKey is null.  Either answer
\* changes nothing.
C12_IncompleteAfterValidation ==
    [][ \A id \in AppIds :
           ( /\ response'.op \in {"submit", "reapply"}
             /\ response'.code # "ok"
             /\ applications[id].userId = response'.by ) =>
                 /\ applications' = applications
                 /\ ~SchemaAccepts(response'.arg) <=> response'.code = "validation_error"
                 /\ ( /\ SchemaAccepts(response'.arg)
                      /\ applications[id].status = EntryStatus(response'.op) ) =>
                          response'.code = "application_incomplete"
                 /\ response'.code = "application_incomplete" =>
                      /\ applications[id].status = EntryStatus(response'.op)
                      /\ Val(response'.details).missingRequiredFields =
                             EmptyRequiredFields(response'.arg)
                      /\ Val(response'.details).missingPaymentProof =
                             (applications[id].paymentProofKey = NULL)
                      /\ \/ ~Complete(response'.arg)
                         \/ applications[id].paymentProofKey = NULL ]_vars

\* An incomplete submit has been refused although the payment proof is attached.
C12_IncompleteWithProof ==
    /\ response.op = "submit"
    /\ response.code = "application_incomplete"
    /\ Val(response.details).missingRequiredFields = << "amountPaid" >>
    /\ Val(response.details).missingPaymentProof = FALSE

\* C13: a payment-verify whose key has no object in storage when the existence
\* check runs never goes on to its update: unless storage fails it is answered
\* payment_proof_not_found, and the table, paymentVerifiedAt and
\* paymentVerifiedByUserId included, stays as it was.
C13_AbsentObjectNotVerified ==
    [][ /\ \A q \in Departures :
              (q.op = "payment-verify" /\ q.pc = "head" /\ q.objectKey \notin objects) =>
                  /\ response'.op = "payment-verify"
                  /\ response'.code \in {"payment_proof_not_found", "storage_unavailable"}
                  /\ Arrivals = {}
                  /\ applications' = applications
        /\ (response'.op = "payment-verify" /\ response'.code = "payment_proof_not_found") =>
              /\ applications' = applications
              /\ \E q \in Departures :
                     /\ q.pc = "head"
                     /\ q.id = response'.arg.id
                     /\ q.objectKey \notin objects ]_vars

\* A payment-verify has been refused because the object of a proof that was
\* verified earlier is gone; the earlier verification is still on the row.
C13_NotFoundKeepsVerification ==
    /\ response.op = "payment-verify"
    /\ response.code = "payment_proof_not_found"
    /\ applications[response.arg.id].status = "PENDING"
    /\ applications[response.arg.id].paymentProofKey # NULL
    /\ Val(applications[response.arg.id].paymentProofKey) \notin objects
    /\ applications[response.arg.id].paymentVerifiedAt # NULL

\* C14: paymentProofObjectExists answers true only for a HEAD that succeeds and
\* false only for NotFound, and rethrows every other failure; payment-verify
\* answers such a failure storage_unavailable, never payment_proof_not_found,
\* does not go on to its update and leaves the table as it was.
C14_StorageFailurePropagates ==
    [][ /\ \A h \in HeadOutcomes :
              /\ paymentProofObjectExists(h) = "true" <=> h = "ok"
              /\ paymentProofObjectExists(h) = "false" <=> h = "NotFound"
              /\ paymentProofObjectExists(h) = "throw" <=> h \in HeadFailures
              /\ h \in HeadFailures <=>
                    PaymentVerifyHeadError(paymentProofObjectExists(h)) = "storage_unavailable"
        /\ (response'.op = "payment-verify" /\ response'.code = "storage_unavailable") =>
              /\ applications' = applications
              /\ Arrivals = {}
              /\ \E q \in Departures : q.pc = "head" /\ q.id = response'.arg.id ]_vars

\* A payment-verify has failed on storage although the object is in the bucket,
\* and the application is still unverified.
C14_UnavailableNotVerified ==
    /\ response.op = "payment-verify"
    /\ response.code = "storage_unavailable"
    /\ applications[response.arg.id].paymentProofKey # NULL
    /\ Val(applications[response.arg.id].paymentProofKey) \in objects
    /\ applications[response.arg.id].paymentVerifiedAt = NULL

\* C15: a decision request for ACCEPTED that reads a submitted application whose
\* paymentVerifiedAt is null is never admitted: it is answered
\* payment_not_verified, and status, reviewedAt, reviewedByUserId, decisionNote
\* and the rest of the table stay as they were.
C15_UnverifiedAcceptRefused ==
    [][ /\ \A q \in Arrivals :
              (q.op = "decision" /\ q.body.status = "ACCEPTED") =>
                  applications[q.id].paymentVerifiedAt # NULL
        /\ ( /\ response'.op = "decision"
             /\ response'.code # "ok"
             /\ response'.by \in Admins
             /\ response'.arg.status = "ACCEPTED"
             /\ response'.arg.id \in AppIds
             /\ applications[response'.arg.id].status # "DRAFT"
             /\ applications[response'.arg.id].paymentVerifiedAt = NULL ) =>
                  response'.code = "payment_not_verified"
        /\ (response'.op = "decision" /\ response'.code = "payment_not_verified") =>
              /\ response'.arg.status = "ACCEPTED"
              /\ applications[response'.arg.id].paymentVerifiedAt = NULL
              /\ applications' = applications
              /\ Arrivals = {} ]_vars

\* An acceptance of a rejected, unverified application has been refused; the
\* rejection and its note are still on the row.
C15_RefusedKeepsReview ==
    /\ response.op = "decision"
    /\ response.code = "payment_not_verified"
    /\ applications[response.arg.id].status = "REJECTED"
    /\ applications[response.arg.id].paymentVerifiedAt = NULL
    /\ applications[response.arg.id].reviewedAt # NULL
    /\ applications[response.arg.id].decisionNote = Some("note")

\* C16: the update of a decision by admin A sets status to the outcome asked
\* for, reviewedAt to now, reviewedByUserId to A and decisionNote to the note
\* given or null, and leaves answersJson, paymentProofKey,
\* paymentProofUploadedAt, paymentVerifiedAt, paymentVerifiedByUserId,
\* submittedAt and every other row as they were; a decision for REJECTED is
\* never answered payment_not_verified.
C16_DecisionWritesReviewFields ==
    [][ /\ \A q \in Departures :
              (q.op = "decision" /\ q.pc = "write") =>
                  /\ response'.op = "decision" /\ response'.code = "ok"
                  /\ applications' =
                        [ applications EXCEPT ![q.id] =
                            [ id |-> applications[q.id].id,
                              userId |-> applications[q.id].userId,
                              answersJson |-> applications[q.id].answersJson,
                              status |-> q.body.status,
                              paymentProofKey |-> applications[q.id].paymentProofKey,
                              paymentProofUploadedAt |-> applications[q.id].paymentProofUploadedAt,
                              paymentVerifiedAt |-> applications[q.id].paymentVerifiedAt,
                              paymentVerifiedByUserId |->
                                  applications[q.id].paymentVerifiedByUserId,
                              submittedAt |-> applications[q.id].submittedAt,
                              reviewedAt |-> Some(now),
                              reviewedByUserId |-> Some(q.by),
                              decisionNote |-> q.body.decisionNote ] ]
        /\ (response'.op = "decision" /\ response'.arg.status = "REJECTED") =>
              response'.code # "payment_not_verified"
        /\ (response'.op = "decision" /\ response'.code = "ok") =>
              \E q \in Departures : q.op = "decision" /\ q.id = response'.arg.id ]_vars

\* A PENDING application that was never verified has just been rejected with a note.
C16_RejectedUnverified ==
    /\ response.op = "decision"
    /\ response.code = "ok"
    /\ response.arg.status = "REJECTED"
    /\ applications[response.arg.id].status = "REJECTED"
    /\ applications[response.arg.id].paymentVerifiedAt = NULL
    /\ applications[response.arg.id].reviewedByUserId = Some(response.by)
    /\ applications[response.arg.id].decisionNote = Some("note")

\* C17: a payment-verify goes on to its existence check only for a row that
\* holds a key and is not a DRAFT, and to its update only when the object of
\* that key is in storage; a row without a key is answered
\* payment_proof_missing, a DRAFT with a key application_not_submitted; the
\* update sets paymentVerifiedAt to now and paymentVerifiedByUserId to the
\* admin and leaves every other column and row as it was.
C17_VerifyGuardsAndFrame ==
    [][ /\ \A q \in Arrivals :
              q.op = "payment-verify" =>
                  IF q.pc = "head"
                  THEN /\ applications[q.id].paymentProofKey = Some(q.objectKey)
                       /\ applications[q.id].status # "DRAFT"
                  ELSE /\ q.objectKey \in objects
                       /\ [q EXCEPT !.pc = "head"] \in Departures
        /\ ( /\ response'.op = "payment-verify"
             /\ response'.code # "ok"
             /\ response'.by \in Admins
             /\ response'.arg.id \in AppIds
             /\ Departures = {} ) =>
                  LET row == applications[response'.arg.id] IN
                  /\ row.paymentProofKey = NULL => response'.code = "payment_proof_missing"
                  /\ (row.paymentProofKey # NULL /\ row.status = "DRAFT") =>
                         response'.code = "application_not_submitted"
                  /\ applications' = applications
        /\ \A q \in Departures :
              (q.op = "payment-verify" /\ q.pc = "write") =>
                  /\ response'.op = "payment-verify" /\ response'.code = "ok"
                  /\ applications' =
                        [ applications EXCEPT ![q.id] =
                            [ id |-> applications[q.id].id,
                              userId |-> applications[q.id].userId,
                              answersJson |-> applications[q.id].answersJson,
                              status |-> applications[q.id].status,
                              paymentProofKey |-> applications[q.id].paymentProofKey,
                              paymentProofUploadedAt |-> applications[q.id].paymentProofUploadedAt,
                              paymentVerifiedAt |-> Some(now),
                              paymentVerifiedByUserId |-> Some(q.by),
                              submittedAt |-> applications[q.id].submittedAt,
                              reviewedAt |-> applications[q.id].reviewedAt,
                              reviewedByUserId |-> applications[q.id].reviewedByUserId,
                              decisionNote |-> applications[q.id].decisionNote ] ] ]_vars

\* A payment-verify has just marked a rejected application as verified; the
\* rejection is still on the row.
C17_Verified ==
    /\ response.op = "payment-verify"
    /\ response.code = "ok"
    /\ applications[response.arg.id].paymentVerifiedAt = Some(now)
    /\ applications[response.arg.id].paymentVerifiedByUserId = Some(response.by)
    /\ applications[response.arg.id].status = "REJECTED"
    /\ applications[response.arg.id].reviewedAt # NULL

\* C18: a start that answers created=false found the user's row, returns it and
\* writes nothing; a start that answers created=true found none and appended
\* one row: status DRAFT, empty answers, submittedAt now, every nullable column
\* null.
C18_StartIdempotent ==
    [][ (response'.op = "start" /\ response'.code = "ok") =>
           IF ~response'.arg.created
           THEN /\ applications' = applications
                /\ \E id \in AppIds :
                       /\ applications[id].userId = response'.by
                       /\ response'.arg.data =
                             [ id |-> id,
                               status |-> applications[id].status,
                               submittedAt |-> applications[id].submittedAt,
                               paymentProofKey |-> applications[id].paymentProofKey,
                               paymentProofUploadedAt |->
                                   applications[id].paymentProofUploadedAt ]
           ELSE /\ RowsOf(applications, response'.by) = {}
                /\ applications' =
                      Append(applications,
                             [ id |-> Len(applications) + 1,
                               userId |-> response'.by,
                               answersJson |-> << >>,
                               status |-> "DRAFT",
                               paymentProofKey |-> NULL,
                               paymentProofUploadedAt |-> NULL,
                               paymentVerifiedAt |-> NULL,
                               paymentVerifiedByUserId |-> NULL,
                               submittedAt |-> now,
                               reviewedAt |-> NULL,
                               reviewedByUserId |-> NULL,
                               decisionNote |-> NULL ])
                /\ response'.arg.data =
                      [id |-> Len(applications) + 1, status |-> "DRAFT", submittedAt |-> now] ]_vars

\* A start has returned an application that is already ACCEPTED.
C18_StartReturnsAccepted ==
    /\ response.op = "start"
    /\ response.code = "ok"
    /\ ~response.arg.created
    /\ response.arg.data.status = "ACCEPTED"
    /\ \E id \in AppIds :
           /\ applications[id].userId = response.by
           /\ applications[id].status = "ACCEPTED"
           /\ applications[id].answersJson = FullAnswers("a")

\* The onboarding routes, the ones an applicant calls.
ApplicantOps == {"start", "submit", "reapply", "upload-url"}

\* C19: a step of an applicant's request (start, submit, reapply, upload-url)
\* whose application is PENDING or ACCEPTED when the step happens leaves that
\* application, answers included, as it was.
C19_SubmittedIsLocked ==
    [][ \A id \in AppIds :
           ( /\ response'.op \in ApplicantOps
             /\ response'.by = applications[id].userId
             /\ applications[id].status \in {"PENDING", "ACCEPTED"} ) =>
                applications'[id] = applications[id] ]_vars

\* C20: an upload-url request is let through to sign a URL only for a user
\* whose application exists and is DRAFT or REJECTED; a user without an
\* application is answered application_not_started, one whose application is
\* PENDING or ACCEPTED payment_proof_locked, and that answer issues no URL and
\* no key and leaves every application, its paymentProofKey,
\* paymentProofUploadedAt and paymentVerifiedAt included, as it was.
C20_UploadUrlRefused ==
    [][ /\ \A q \in Arrivals :
              q.op = "upload-url" =>
                  /\ q.id \in AppIds
                  /\ applications[q.id].userId = q.by
                  /\ applications[q.id].status \in {"DRAFT", "REJECTED"}
        /\ ( /\ response'.op = "upload-url"
             /\ response'.code # "ok"
             /\ Departures = {} ) =>
                  /\ RowsOf(applications, response'.by) = {} =>
                         response'.code = "application_not_started"
                  /\ (\E i \in RowsOf(applications, response'.by) :
                          applications[i].status \in {"PENDING", "ACCEPTED"}) =>
                         response'.code = "payment_proof_locked"
                  /\ response'.code \in {"application_not_started", "payment_proof_locked"} =>
                         /\ applications' = applications
                         /\ urls' = urls
                         /\ issued' = issued
                         /\ Arrivals = {} ]_vars

\* An upload-url request on an ACCEPTED application has just been answered
\* payment_proof_locked; the application holds its verified proof.
C20_LockedOnAccepted ==
    /\ response.op = "upload-url"
    /\ response.code = "payment_proof_locked"
    /\ \E i \in RowsOf(applications, response.by) :
           /\ applications[i].status = "ACCEPTED"
           /\ applications[i].paymentProofKey # NULL
           /\ applications[i].paymentVerifiedAt # NULL

\* C21: a submit whose body passed validateBody is answered
\* application_not_started when the user has no application,
\* use_reapply_endpoint when the application is REJECTED and
\* application_already_submitted when it is PENDING or ACCEPTED, whether the
\* payload is complete or not; none of these answers writes a row or lets the
\* request through.
C21_SubmitOutsideDraftRefused ==
    [][ ( /\ response'.op = "submit"
          /\ Departures = {}
          /\ SchemaAccepts(response'.arg) ) =>
             /\ RowsOf(applications, response'.by) = {} =>
                    response'.code = "application_not_started"
             /\ \A i \in RowsOf(applications, response'.by) :
                    /\ applications[i].status = "REJECTED" =>
                           response'.code = "use_reapply_endpoint"
                    /\ applications[i].status \in {"PENDING", "ACCEPTED"} =>
                           response'.code = "application_already_submitted"
             /\ response'.code \in {"application_not_started", "use_reapply_endpoint",
                                    "application_already_submitted"} =>
                    /\ applications' = applications
                    /\ Arrivals = {} ]_vars

\* A submit with an incomplete payload on a REJECTED application has just been
\* answered use_reapply_endpoint.
C21_IncompleteOnRejected ==
    /\ response.op = "submit"
    /\ response.code = "use_reapply_endpoint"
    /\ ~Complete(response.arg)
    /\ \E i \in RowsOf(applications, response.by) : applications[i].status = "REJECTED"

\* C22: in every step, an application that becomes PENDING from REJECTED does so
\* in the update of a reapply and one that becomes PENDING from DRAFT in the
\* update of a submit; no application becomes DRAFT; no row is removed or
\* replaced by another user's.
C22_StatusGraphClosed ==
    [][ /\ Len(applications') >= Len(applications)
        /\ \A id \in AppIds :
              /\ applications'[id].id = applications[id].id
              /\ applications'[id].userId = applications[id].userId
              /\ (applications[id].status = "REJECTED" /\ applications'[id].status = "PENDING") =>
                     (response'.op = "reapply" /\ response'.code = "ok")
              /\ (applications[id].status = "DRAFT" /\ applications'[id].status = "PENDING") =>
                     (response'.op = "submit" /\ response'.code = "ok")
              /\ applications[id].status # "DRAFT" => applications'[id].status # "DRAFT" ]_vars

\* The onboarding routes.
OnboardingOps == {"onboarding-get", "onboarding-post"}

\* Does the user hold an ACCEPTED application?
Accepted(u) == \E i \in RowsOf(applications, u) : applications[i].status = "ACCEPTED"

\* C23: an onboarding request (GET or POST) of a member gets past the
\* eligibility check only if the member's application is ACCEPTED when the
\* request checks it; otherwise a well-formed request is answered
\* membership_not_accepted, is not let through and leaves the onboarding
\* tables as they were, also when the member completed onboarding earlier; an
\* admin's request is never answered membership_not_accepted.
C23_OnboardingGate ==
    [][ /\ \A q \in Arrivals :
              (q.op \in OnboardingOps /\ q.pc = "find" /\ Role(q.by) # "ADMIN") =>
                  Accepted(q.by)
        /\ ( /\ response'.op \in OnboardingOps
             /\ Departures = {}
             /\ Role(response'.by) # "ADMIN"
             /\ ~Accepted(response'.by)
             /\ response'.op = "onboarding-post" => onboardingSchema(response'.arg) ) =>
                /\ response'.code = "membership_not_accepted"
                /\ Arrivals = {}
                /\ onboardingResponses' = onboardingResponses
                /\ onboardingCompletedAt' = onboardingCompletedAt
        /\ (response'.op \in OnboardingOps /\ Role(response'.by) = "ADMIN") =>
                response'.code # "membership_not_accepted" ]_vars

\* A member who completed onboarding while ACCEPTED has since been rejected and
\* has just been refused by the gate.
C23_RefusedAfterRejection ==
    /\ response.op = "onboarding-get"
    /\ response.code = "membership_not_accepted"
    /\ FindResponse(response.by) # NULL
    /\ \E i \in RowsOf(applications, response.by) : applications[i].status = "REJECTED"

\* C24: in every state a user's onboardingCompletedAt is set exactly when the
\* OnboardingResponse table holds a row of that user, and then it is the row's
\* submittedAt; this also holds after a transaction of a submission or of a
\* reset has failed.
C24_MarkerIffResponse ==
    \A u \in Users :
        /\ onboardingCompletedAt[u] # NULL <=> FindResponse(u) # NULL
        /\ FindResponse(u) # NULL =>
               onboardingCompletedAt[u] = Some(Val(FindResponse(u)).submittedAt)

\* A reset of a member who completed onboarding has just failed in its
\* transaction; response and marker are both still there.
C24_FailedResetKeepsBoth ==
    /\ response.op = "onboarding-reset"
    /\ response.code = "internal_error"
    /\ response.arg.userId \in Members
    /\ FindResponse(response.arg.userId) # NULL
    /\ onboardingCompletedAt[response.arg.userId] # NULL

\* C25: no step leaves two OnboardingResponse rows of one user, also when two
\* submissions of the user interleave; a submission answered already_completed
\* or duplicate finds a row of the user and leaves the table and the marker as
\* they were; a submission succeeds only when the user has no row, that is at
\* first or after a reset.
C25_OneResponsePerUser ==
    [][ /\ \A u \in Users :
              Cardinality({i \in 1..Len(onboardingResponses') :
                              onboardingResponses'[i].userId = u}) <= 1
        /\ ( /\ response'.op = "onboarding-post"
             /\ response'.code \in {"already_completed", "duplicate"} ) =>
                /\ FindResponse(response'.by) # NULL
                /\ onboardingResponses' = onboardingResponses
                /\ onboardingCompletedAt' = onboardingCompletedAt
        /\ (response'.op = "onboarding-post" /\ response'.code = "ok") =>
                /\ FindResponse(response'.by) = NULL
                /\ onboardingResponses' =
                      Append(onboardingResponses,
                             [ userId |-> response'.by,
                               answersJson |-> response'.arg,
                               submittedAt |-> now ]) ]_vars

\* Of two interleaved submissions of a member the second has just failed on
\* the unique index; the row of the first, written earlier, is the only one.
C25_SecondIsDuplicate ==
    /\ response.op = "onboarding-post"
    /\ response.code = "duplicate"
    /\ response.by \in Members
    /\ FindResponse(response.by) # NULL
    /\ Val(FindResponse(response.by)).submittedAt < now
    /\ Len(onboardingResponses) = 1

\* The routes of routes/admin.
AdminOps == {"list", "detail", "payment-verify", "decision", "onboarding-reset"}

\* C26: a request to an admin route (list, detail, payment-verify, decision,
\* onboarding reset) by an actor who is not an admin is answered unauthorized
\* without a session and forbidden with the MEMBER role, carries no data, is
\* not let through and changes no table; every request let through is an
\* admin's, and paymentVerifiedByUserId and reviewedByUserId of every row are
\* null or an admin's id.
C26_AdminOnly ==
    [][ /\ (response'.op \in AdminOps /\ response'.by \notin Admins) =>
              /\ response'.code =
                    IF response'.by = Anonymous THEN "unauthorized" ELSE "forbidden"
              /\ response'.arg = NULL \/ "data" \notin DOMAIN response'.arg
              /\ Arrivals = {}
              /\ UNCHANGED << applications, objects, onboardingResponses,
                              onboardingCompletedAt >>
        /\ \A q \in Arrivals : q.by \in Admins
        /\ \A i \in 1..Len(applications') :
              /\ applications'[i].paymentVerifiedByUserId # NULL =>
                    Val(applications'[i].paymentVerifiedByUserId) \in Admins
              /\ applications'[i].reviewedByUserId # NULL =>
                    Val(applications'[i].reviewedByUserId) \in Admins ]_vars

\* A member's decision on a pending, verified application has just been
\* answered forbidden; the application is still pending.
C26_MemberForbidden ==
    /\ response.op = "decision"
    /\ response.code = "forbidden"
    /\ response.by \in Members
    /\ response.arg.id \in AppIds
    /\ applications[response.arg.id].status = "PENDING"
    /\ applications[response.arg.id].paymentVerifiedAt # NULL

\* C27: the data of a successful listing holds no DRAFT application, holds
\* every PENDING, ACCEPTED and REJECTED application of the table exactly once,
\* with the columns of its row, and is ordered by submittedAt, the most recent
\* first.
C27_ListingOfSubmitted ==
    [][ (response'.op = "list" /\ response'.code = "ok") =>
           LET data == response'.arg.data IN
           /\ \A i \in 1..Len(data) :
                 /\ data[i].status # "DRAFT"
                 /\ data[i].id \in AppIds
                 /\ data[i].status = applications[data[i].id].status
                 /\ data[i].submittedAt = applications[data[i].id].submittedAt
                 /\ data[i].user = applications[data[i].id].userId
           /\ \A id \in AppIds :
                 applications[id].status \in {"PENDING", "ACCEPTED", "REJECTED"} =>
                     Cardinality({i \in 1..Len(data) : data[i].id = id}) = 1
           /\ \A i, j \in 1..Len(data) :
                 i < j => data[i].submittedAt >= data[j].submittedAt ]_vars

\* A listing has just put the application submitted later, the second row of
\* the table, ahead of the first.
C27_LaterFirst ==
    /\ response.op = "list"
    /\ response.code = "ok"
    /\ Len(response.arg.data) = 2
    /\ response.arg.data[1].id = 2
    /\ response.arg.data[1].submittedAt > response.arg.data[2].submittedAt

\* C28: an admin's listing, whatever the keys for which signing the view URL
\* throws, is answered ok with every row findMany returned, in its order; the
\* paymentProofViewUrl of a row is null when the row has no key or signing
\* threw for its key and the signed URL of its key otherwise.  The same holds
\* for the detail read of an existing application.  Neither read changes a
\* table, the bucket or the requests in flight.
C28_ReadsDegrade ==
    [][ /\ \A u \in Admins, found \in FindMany, failing \in SUBSET ProofKeys :
              AdminList(u, found, failing) =>
                  /\ response'.code = "ok"
                  /\ Len(response'.arg.data) = Len(found)
                  /\ \A i \in 1..Len(found) :
                        LET item == response'.arg.data[i]
                            objectKey == found[i].paymentProofKey IN
                        /\ item.id = found[i].id
                        /\ item.paymentProofKey = objectKey
                        /\ item.paymentProofViewUrl =
                              IF objectKey = NULL THEN NULL
                              ELSE IF Val(objectKey) \in failing THEN NULL
                              ELSE Some(createPaymentProofViewUrl(Val(objectKey)))
        /\ \A u \in Admins, id \in AppIds, throws \in BOOLEAN :
              AdminDetail(u, id, throws) =>
                  /\ response'.code = "ok"
                  /\ response'.arg.data.id = id
                  /\ response'.arg.data.paymentProofViewUrl =
                        IF applications[id].paymentProofKey = NULL THEN NULL
                        ELSE IF throws THEN NULL
                        ELSE Some(createPaymentProofViewUrl(
                                     Val(applications[id].paymentProofKey)))
        /\ response'.op \in {"list", "detail"} =>
              UNCHANGED << applications, objects, urls, issued, inflight,
                           onboardingResponses, onboardingCompletedAt >> ]_vars

\* A listing of two applications with a proof has just succeeded with the
\* view URL of one and null for the other, for which signing threw.
C28_OneUrlMissing ==
    /\ response.op = "list"
    /\ response.code = "ok"
    /\ Len(response.arg.data) = 2
    /\ response.arg.data[1].paymentProofKey # NULL
    /\ response.arg.data[1].paymentProofViewUrl = NULL
    /\ response.arg.data[2].paymentProofViewUrl # NULL

\* Is a value present in the sense of the claim C29?  A string with a
\* character that is not white space, a finite number, a boolean, an array or
\* an object that is not empty.
PresentValue(value) ==
    \/ value.type = "string" /\ \E i \in 1..Len(value.chars) : value.chars[i] \notin Whitespace
    \/ value.type = "number" /\ value.kind \notin {"NaN", "Infinity", "-Infinity"}
    \/ value.type = "boolean"
    \/ value.type = "array" /\ value.length # 0
    \/ value.type = "object" /\ value.keys # 0

\* The value an entry list gives a key: that of its last entry, if any.
EntryValue(entries, key) ==
    LET at == {i \in 1..Len(entries) : entries[i][1] = key} IN
    IF at = {} THEN Undefined
    ELSE entries[CHOOSE i \in at : \A j \in at : j <= i][2]

\* C29: the list a call returns holds a required field exactly when the
\* object's value for it is not present (null, undefined, an absent key, an
\* empty or white-space string, NaN, an infinite number, an empty array or
\* object), and holds nothing but required fields.
C29_MissingExactlyNotPresent ==
    response.op = "completeness" =>
        LET missing == Val(response.details) IN
        /\ \A f \in RequiredSet :
              (\E i \in 1..Len(missing) : missing[i] = f) <=>
                  ~PresentValue(EntryValue(response.arg, f))
        /\ \A i \in 1..Len(missing) : missing[i] \in RequiredSet

\* A call on an object whose fullName is blanks and whose amountPaid is
\* infinite has returned the two.
C29_BlankAndInfinite ==
    /\ response.op = "completeness"
    /\ EntryValue(response.arg, "fullName") = Str(<< "\t", "\n" >>)
    /\ EntryValue(response.arg, "amountPaid") = Num("Infinity")
    /\ Val(response.details) = << "fullName", "amountPaid" >>

\* The position of a field in the canonical list, 0 for a key outside it.
CanonicalIndex(f) ==
    IF f \in RequiredSet
    THEN CHOOSE i \in 1..Len(requiredFieldIds) : requiredFieldIds[i] = f
    ELSE 0

\* C30: the list a call returns is a subsequence of the canonical list of 17
\* required fields, in its order; two calls, one after the other, on objects
\* that give every required field the same value return the same list,
\* whatever the insertion order of the keys and whatever keys outside the
\* list the objects hold; the object a call leaves is the object it was given.
C30_CompletenessDeterministic ==
    [][ response'.op = "completeness" =>
           LET missing == Val(response'.details) IN
           /\ Len(requiredFieldIds) = 17
           /\ \A i \in 1..Len(missing) : CanonicalIndex(missing[i]) > 0
           /\ \A i, j \in 1..Len(missing) :
                 i < j => CanonicalIndex(missing[i]) < CanonicalIndex(missing[j])
           /\ response'.arg \in CompletenessInputs
           /\ ( /\ response.op = "completeness"
                /\ \A f \in RequiredSet :
                      EntryValue(response.arg, f) = EntryValue(response'.arg, f) ) =>
                   Val(response'.details) = Val(response.details) ]_vars

\* A call on an object whose keys were inserted in reverse order, with a key
\* outside the list, has returned fullName before amountPaid.
C30_ReversedKeysCanonicalReport ==
    /\ response.op = "completeness"
    /\ response.arg[1][1] = "referenceNumber"
    /\ \E i \in 1..Len(response.arg) : response.arg[i][1] = "nickname"
    /\ Val(response.details) = << "fullName", "amountPaid" >>

\* C31: the expiry of every signed upload URL and view URL is between 60 and
\* 3600 seconds; it is the value configured or requested when that lies in
\* the band, 60 when the value is smaller and 3600 when it is larger.
C31_TtlClamped ==
    (response.op = "sign" /\ response.arg.ttlSeconds # NULL) =>
        LET ttlSeconds == Val(response.arg.ttlSeconds)
            expiresIn == Val(response.details) IN
        /\ expiresIn >= 60
        /\ expiresIn <= 3600
        /\ (ttlSeconds >= 60 /\ ttlSeconds <= 3600) => expiresIn = ttlSeconds
        /\ ttlSeconds < 60 => expiresIn = 60
        /\ ttlSeconds > 3600 => expiresIn = 3600

\* An upload URL has been signed with the floor although a negative
\* time-to-live is configured.
C31_NegativeRaisedToFloor ==
    /\ response.op = "sign"
    /\ response.arg.use = "upload"
    /\ response.arg.ttlSeconds # NULL
    /\ Val(response.arg.ttlSeconds) < 0
    /\ Val(response.details) = 60

\* C32: an upload-url request whose content type is not image/jpeg, image/png
\* or image/webp, or whose content length is not a whole number from 1 to
\* 10 MiB, is answered validation_error, builds no key, is not let through and
\* changes no table; every request let through carries a key whose extension
\* is jpg, png or webp, and so does every paymentProofKey of the table.
C32_UploadBodyValidated ==
    [][ /\ ( /\ response'.op = "upload-url"
             /\ Departures = {}
             /\ \/ response'.arg.contentType \notin {"image/jpeg", "image/png", "image/webp"}
                \/ response'.arg.contentLength.type # "number"
                \/ response'.arg.contentLength.fraction
                \/ response'.arg.contentLength.whole < 1
                \/ response'.arg.contentLength.whole > 10485760 ) =>
                /\ response'.code = "validation_error"
                /\ Arrivals = {}
                /\ UNCHANGED << applications, issued, urls, objects >>
        /\ \A q \in Arrivals :
              q.op = "upload-url" => q.objectKey.extension \in {"jpg", "png", "webp"}
        /\ \A i \in 1..Len(applications') :
              applications'[i].paymentProofKey # NULL =>
                 Val(applications'[i].paymentProofKey).extension \in {"jpg", "png", "webp"} ]_vars

\* A request for a PDF of an allowed length has just been refused although
\* the applicant's DRAFT could take a proof; the application has no key.
C32_PdfRefused ==
    /\ response.op = "upload-url"
    /\ response.code = "validation_error"
    /\ response.arg.contentType = "application/pdf"
    /\ response.arg.contentLength = Whole(1)
    /\ \E i \in RowsOf(applications, response.by) :
          /\ applications[i].status = "DRAFT"
          /\ applications[i].paymentProofKey = NULL

\* C33: apiFetch sends the request at most twice and always returns.  It calls
\* itself again only after the first send was answered with the JSON error code
\* invalid_csrf_token; that step clears the cached token, and the second send
\* of a request that needs a token and carries none of the caller's follows a
\* fresh GET /auth/csrf.  Every other answer to the first send, and every
\* answer to the second, ends the call with the result or the error.
C33_RetryAtMostOnce ==
    /\ [][ /\ apiCall' # NULL => apiCall'.sends <= 1 /\ apiCall'.attempt = apiCall'.sends
           /\ response'.op = "apiFetch" => Val(response'.details).sends <= 2
           /\ apiCall # NULL /\ apiCall' # NULL /\ apiCall'.attempt # apiCall.attempt =>
                 /\ apiCall.attempt = 0
                 /\ apiCall'.attempt = 1
                 /\ Val(apiCall'.received).code = Some("invalid_csrf_token")
                 /\ csrfTokenCache' = NULL
                 /\ apiCall'.pc = "headers"
           /\ apiCall' # NULL /\ apiCall'.pc = "fetch" /\ apiCall'.attempt = 1
              /\ needsCsrf(apiCall'.method) /\ ~apiCall'.header =>
                 /\ apiCall'.refreshed
                 /\ apiCall'.token # NULL
                 /\ csrfTokenCache' = apiCall'.token
           /\ apiCall # NULL /\ apiCall.pc = "fetch"
              /\ apiCall' # apiCall /\ response'.op = "apiFetch" =>
                 LET answer == Val(Val(response'.details).received) IN
                 /\ apiCall' = NULL
                 /\ Val(response'.details).sends = apiCall.sends + 1
                 /\ response'.code =
                       IF answer.rejected THEN "TypeError"
                       ELSE IF answer.ok THEN "ok"
                       ELSE IF ~answer.json \/ answer.code = NULL THEN "request_failed"
                       ELSE Val(answer.code)
                 /\ answer.code = Some("invalid_csrf_token") => apiCall.attempt = 1
           /\ apiCall # NULL /\ apiCall.pc = "fetch" /\ apiCall' # apiCall
              /\ response'.op # "apiFetch" =>
                 /\ apiCall.attempt = 0
                 /\ apiCall' # NULL
                 /\ Val(apiCall'.received).code = Some("invalid_csrf_token")
         ]_vars
    /\ (apiCall # NULL ~> apiCall = NULL)

\* A POST was answered invalid_csrf_token twice: the caller got that error
\* after two sends, the second with a token fetched in between.
C33_SecondRefusalRaised ==
    /\ apiCall = NULL
    /\ response.op = "apiFetch"
    /\ response.arg.method = "POST"
    /\ ~response.arg.header
    /\ response.code = "invalid_csrf_token"
    /\ Val(response.details).sends = 2
    /\ csrfTokenCache # NULL

\* C34: after every step, an application that is PENDING, ACCEPTED or REJECTED
\* has a payment proof key, and no step sets a key that was set back to null.
C34_SubmittedHasProofKey ==
    [][ /\ \A id \in DOMAIN applications' :
              applications'[id].status \in {"PENDING", "ACCEPTED", "REJECTED"} =>
                  applications'[id].paymentProofKey # NULL
        /\ \A id \in AppIds :
              applications[id].paymentProofKey # NULL =>
                  applications'[id].paymentProofKey # NULL ]_vars

\* A rejected application whose proof was replaced: it holds the second key.
C34_ReplacedAfterRejection ==
    /\ response.op = "upload-url"
    /\ response.code = "ok"
    /\ \E id \in AppIds :
           /\ applications[id].status = "REJECTED"
           /\ applications[id].paymentProofKey = Some(response.arg)
           /\ response.arg.serial = 2

\* C35: after every step, reviewedAt and reviewedByUserId of an application are
\* set exactly when its status is ACCEPTED or REJECTED; a DRAFT application has
\* no payment verification and no decision note, and a PENDING application no
\* decision note.
C35_ReviewFollowsStatus ==
    [][ \A id \in DOMAIN applications' :
            LET row == applications'[id] IN
            /\ row.reviewedAt # NULL <=> row.status \in {"ACCEPTED", "REJECTED"}
            /\ row.reviewedByUserId # NULL <=> row.status \in {"ACCEPTED", "REJECTED"}
            /\ row.status = "DRAFT" =>
                  /\ row.paymentVerifiedAt = NULL
                  /\ row.decisionNote = NULL
            /\ row.status = "PENDING" => row.decisionNote = NULL ]_vars

\* A rejected application, with its reviewer and note, has gone back to PENDING:
\* the reapply has cleared them.
C35_ReviewClearedByReapply ==
    /\ response.op = "reapply"
    /\ response.code = "ok"
    /\ \E id \in AppIds :
           /\ applications[id].userId = response.by
           /\ applications[id].status = "PENDING"
           /\ applications[id].reviewedAt = NULL
           /\ applications[id].reviewedByUserId = NULL
           /\ applications[id].decisionNote = NULL
           /\ applications[id].paymentVerifiedAt = NULL

C37_UploadAllOrNothing ==
    [][ /\ (response'.op = "upload-url" /\ response'.code = "storage_unavailable") =>
              /\ applications' = applications
              /\ urls' = urls
              /\ issued' = issued
              /\ inflight' = inflight
        /\ (response'.op = "upload-url" /\ response'.code = "ok") =>
              /\ response'.arg \notin urls
              /\ response'.arg \in urls'
              /\ \A id \in AppIds : applications[id].paymentProofKey # Some(response'.arg)
              /\ \E id \in AppIds :
                    /\ applications[id].userId = response'.by
                    /\ applications' =
                          [applications EXCEPT
                              ![id] = [@ EXCEPT !.paymentProofKey = Some(response'.arg),
                                                !.paymentProofUploadedAt = Some(now),
                                                !.paymentVerifiedAt = NULL,
                                                !.paymentVerifiedByUserId = NULL]] ]_vars

\* Signing failed for an applicant whose rejected application holds a proof:
\* the row still holds that proof and its upload time.
C37_FailedSigningKeepsProof ==
    /\ response.op = "upload-url"
    /\ response.code = "storage_unavailable"
    /\ \E id \in AppIds :
           /\ applications[id].userId = response.by
           /\ applications[id].status = "REJECTED"
           /\ applications[id].paymentProofKey # NULL
           /\ applications[id].paymentProofUploadedAt # NULL
====
